---- MODULE Spec2Model ----
(***************************************************************************)
(* Model of the MWC VIN decoder (src/src/main.rs).                         *)
(*                                                                         *)
(* Two pipelines are modelled:                                             *)
(*   - the binary pipeline: parse_vingen4_file scans a byte buffer for the *)
(*     tagged entry "VINGen4", read_header reads the container header and  *)
(*     parse_dictionary_vec / parse_value decode the pairs;                *)
(*   - the fixed-width pipeline: parse_vin splits a code string by         *)
(*     VIN_STRUCTURE.                                                      *)
(*                                                                         *)
(* Conventions.  A byte is a number in 0..255, a buffer a sequence of      *)
(* bytes.  A Rust String / &str is modelled as the sequence of its UTF-8   *)
(* bytes, so "42" is <<52, 50>>.  Offsets are 0-based as in the source;    *)
(* At and Slice translate them to TLA+'s 1-based sequences.  A 32-bit      *)
(* type tag is kept as its 4 little-endian bytes (the values exceed the    *)
(* range of the model checker's integers).  usize is 64 bits wide (the     *)
(* program is a desktop application), so offset sums do not wrap.  A Rust  *)
(* panic (index or slice out of range) is an explicit outcome.             *)
(***************************************************************************)
EXTENDS Integers, Sequences, FiniteSets, TLC

VARIABLES
    src,        \* ghost: how the input was built (never read by the program)
    buffer,     \* parse_vingen4_file: the bytes read from the file
    i,          \* parse_vingen4_file: the scan index
    pc,         \* position of the running function
    result,     \* parse_vingen4_file: the returned Option<Vec<(String,String)>>
    data,       \* parse_dictionary_vec: the dictionary data region
    key_type,   \* parse_dictionary_vec: key type tag
    value_type, \* parse_dictionary_vec: value type tag
    count,      \* parse_dictionary_vec: number of pairs to produce
    offset,     \* parse_dictionary_vec: the shared cursor
    pairs,      \* parse_dictionary_vec: pairs collected so far
    vin,        \* parse_vin: the code string (UTF-8 bytes)
    pos,        \* parse_vin: the running cursor
    field,      \* parse_vin: index of the next field of VIN_STRUCTURE (1-based)
    vals,       \* parse_vin: substrings produced so far, in schema order
    rows,       \* render_vin_table: the rows drawn so far
    vin_input,  \* VinApp: text of the code input box (UTF-8 bytes)
    entries,    \* VinApp: Option<HashMap>, the fields of the decoded code
    vin_error,  \* VinApp: Option<String>, the validation message
    file_path,  \* VinApp: text of the path box
    vingen4_entries, \* VinApp: Option<Vec<(String,String)>> of the loaded file
    last_source,     \* VinApp: LastSource
    file_error, \* VinApp: Option<String>, the load message
    files,      \* the file system: path -> contents, or absent
    event       \* the input event handled by the last frame, and its calls

vars == <<src, buffer, i, pc, result, data, key_type, value_type, count,
          offset, pairs, vin, pos, field, vals, rows, vin_input, entries,
          vin_error, file_path, vingen4_entries, last_source, file_error,
          files, event>>

\* the fields of VinApp with the file system and the event record
appVars == <<vin_input, entries, vin_error, file_path, vingen4_entries,
             last_source, file_error, files, event>>

-----------------------------------------------------------------------------
(* Byte-level helpers *)

\* s[k] with a 0-based index
At(s, k) == s[k + 1]

\* &s[a..b] with 0-based, half-open bounds (the caller checks a <= b <= len)
Slice(s, a, b) == SubSeq(s, a + 1, b)

\* &s[a..]
SliceFrom(s, a) == SubSeq(s, a + 1, Len(s))

\* u32::from_le_bytes / read_u32::<LittleEndian> as a number
U32LE(b) == b[1] + 256 * b[2] + 65536 * b[3] + 16777216 * b[4]

\* variant of I32LE: the first byte is the most significant
I32LE_BigEndian(b) ==
    b[4] + 256 * b[3] + 65536 * b[2]
      + 16777216 * (IF b[1] >= 128 THEN b[1] - 256 ELSE b[1])

\* read_i32::<LittleEndian>: two's complement
I32LE(b) ==
    b[1] + 256 * b[2] + 65536 * b[3]
      + 16777216 * (IF b[4] >= 128 THEN b[4] - 256 ELSE b[4])

\* i32::to_string for n <= 0 without the sign: the decimal digits of -n.
\* (Works on the non-positive side so that i32::MIN needs no negation.)
RECURSIVE NegDigits(_)
NegDigits(n) ==
    LET d == (10 - (n % 10)) % 10
        q == (n + d) \div 10
    IN  IF q = 0 THEN <<48 + d>> ELSE NegDigits(q) \o <<48 + d>>

\* i32::to_string
I32ToString(n) == IF n < 0 THEN <<45>> \o NegDigits(n) ELSE NegDigits(0 - n)

\* variant of HexDigit: uppercase digits, as {:02X} would give
HexDigit_Upper(n) == IF n < 10 THEN 48 + n ELSE 55 + n

\* one hex digit, lowercase
HexDigit(n) == IF n < 10 THEN 48 + n ELSE 87 + n

\* format!("{:02x}", b) for each byte, concatenated
RECURSIVE HexString(_)
HexString(bs) ==
    IF bs = <<>> THEN <<>>
    ELSE <<HexDigit(Head(bs) \div 16), HexDigit(Head(bs) % 16)>> \o HexString(Tail(bs))

IsCont(b) == b >= 128 /\ b <= 191

\* std::str::from_utf8(..).is_ok(): well-formed UTF-8 from index k (1-based) on
RECURSIVE ValidUtf8From(_, _)
ValidUtf8From(s, k) ==
    IF k > Len(s) THEN TRUE
    ELSE LET b == s[k]
             has(n) == k + n <= Len(s)
         IN  IF b < 128 THEN ValidUtf8From(s, k + 1)
             ELSE IF b >= 194 /\ b <= 223
                  THEN has(1) /\ IsCont(s[k + 1]) /\ ValidUtf8From(s, k + 2)
             ELSE IF b >= 224 /\ b <= 239
                  THEN /\ has(2)
                       /\ IsCont(s[k + 1]) /\ IsCont(s[k + 2])
                       /\ (b = 224 => s[k + 1] >= 160)
                       /\ (b = 237 => s[k + 1] <= 159)
                       /\ ValidUtf8From(s, k + 3)
             ELSE IF b >= 240 /\ b <= 244
                  THEN /\ has(3)
                       /\ IsCont(s[k + 1]) /\ IsCont(s[k + 2]) /\ IsCont(s[k + 3])
                       /\ (b = 240 => s[k + 1] >= 144)
                       /\ (b = 244 => s[k + 1] <= 143)
                       /\ ValidUtf8From(s, k + 4)
             ELSE FALSE

ValidUtf8(s) == ValidUtf8From(s, 1)

\* str::is_char_boundary(k) on a valid UTF-8 string, 0-based k
IsCharBoundary(s, k) ==
    \/ k = 0
    \/ k = Len(s)
    \/ (k < Len(s) /\ ~IsCont(At(s, k)))

\* str::get(a..b): Some(substring) iff a <= b <= len and both on char boundaries
StrGet(s, a, b) ==
    IF a <= b /\ b <= Len(s) /\ IsCharBoundary(s, a) /\ IsCharBoundary(s, b)
    THEN [some |-> TRUE, str |-> Slice(s, a, b)]
    ELSE [some |-> FALSE, str |-> <<>>]

-----------------------------------------------------------------------------
(* Program constants *)

EMPTY == <<>>

HX_START_ENTRY == 126                               \* 0x7E

CONTAINER_TYPE_DICTIONARY == 82                     \* 0x52

\* 0xFDE9F1EE, 0xE2A80856, 0xAD4D7C9C as little-endian bytes
VALUE_TYPE_STRING == <<238, 241, 233, 253>>
VALUE_TYPE_INT32  == <<86, 8, 168, 226>>
VALUE_TYPE_BOOL   == <<156, 124, 77, 173>>

\* 0u32, the initial key_type of read_header
ZeroType == <<0, 0, 0, 0>>

\* the bytes of "VINGen4"
TargetTag == <<86, 73, 78, 71, 101, 110, 52>>

\* Option<Vec<(String, String)>>
None == [some |-> FALSE, pairs |-> <<>>]
Some(ps) == [some |-> TRUE, pairs |-> ps]

\* Option<HashMap<String, String>>
NoEntries == [some |-> FALSE, map |-> <<>>]
SomeEntries(m) == [some |-> TRUE, map |-> m]

\* Option<String> of vin_error: the message keeps the two numbers it names
NoVinError == [some |-> FALSE, text |-> "", actual |-> 0, expected |-> 0]
InvalidVinLength(n, m) ==
    [some |-> TRUE, text |-> "Invalid VIN length", actual |-> n, expected |-> m]

\* Option<String> of file_error
NoFileError == [some |-> FALSE, text |-> "", path |-> ""]
FileNotFound(p) == [some |-> TRUE, text |-> "File not found", path |-> p]
NoVinData == [some |-> TRUE, text |-> "No VIN data found in file", path |-> ""]

\* VinApp::default_file_path()
DefaultPath == "carparts.txt"

\* a path that names no file
Absent == [exists |-> FALSE, bytes |-> <<>>]
FileOf(bs) == [exists |-> TRUE, bytes |-> bs]

NoEvent == [kind |-> "none", path |-> "", text |-> <<>>, parse_vin |-> <<>>]

\* impl Default for VinApp, with an empty file system and nothing drawn
AppIdle ==
    /\ vin_input = <<>>
    /\ entries = NoEntries
    /\ vin_error = NoVinError
    /\ file_path = DefaultPath
    /\ vingen4_entries = None
    /\ last_source = "None"
    /\ file_error = NoFileError
    /\ files = [p \in {DefaultPath} |-> Absent]
    /\ event = NoEvent

-----------------------------------------------------------------------------
(* read_header: (container_type, key_type, value_type, offset), or a panic  *)
(* when body[0] or one of the two 4-byte slices is out of range.  The       *)
(* `.ok()?` on a 4-byte slice never fails, so the function never returns    *)
(* None.                                                                    *)

HeaderPanic ==
    [panic |-> TRUE, container_type |-> 0, key_type |-> ZeroType,
     value_type |-> ZeroType, offset |-> 0]

\* variant of read_header: a first byte of 0xFF is kept as the kind
read_header_KeepFF(body) ==
    IF Len(body) < 1 THEN HeaderPanic
    ELSE
      LET container_type == At(body, 0)
          isDict == container_type = CONTAINER_TYPE_DICTIONARY
          off1   == IF isDict THEN 2 + 4 ELSE 2
      IN  IF isDict /\ 2 + 4 > Len(body) THEN HeaderPanic
          ELSE IF off1 + 4 > Len(body) THEN HeaderPanic
          ELSE
            LET kt        == IF isDict THEN Slice(body, 2, 2 + 4) ELSE ZeroType
                vt        == Slice(body, off1, off1 + 4)
                prop_size == IF kt = ZeroType THEN 1 ELSE 2
            IN  [panic |-> FALSE, container_type |-> container_type,
                 key_type |-> kt, value_type |-> vt,
                 offset |-> off1 + 4 + prop_size]

read_header(body) ==
    IF Len(body) < 1 THEN HeaderPanic
    ELSE
      LET container_type == IF At(body, 0) # 255 THEN At(body, 0) ELSE 0
          isDict == container_type = CONTAINER_TYPE_DICTIONARY
          off1   == IF isDict THEN 2 + 4 ELSE 2
      IN  IF isDict /\ 2 + 4 > Len(body) THEN HeaderPanic
          ELSE IF off1 + 4 > Len(body) THEN HeaderPanic
          ELSE
            LET kt        == IF isDict THEN Slice(body, 2, 2 + 4) ELSE ZeroType
                vt        == Slice(body, off1, off1 + 4)
                prop_size == IF kt = ZeroType THEN 1 ELSE 2
            IN  [panic |-> FALSE, container_type |-> container_type,
                 key_type |-> kt, value_type |-> vt,
                 offset |-> off1 + 4 + prop_size]

-----------------------------------------------------------------------------
(* parse_value: Option<String> and the cursor after the call.               *)
(*   some = FALSE, panic = FALSE : returned None                            *)
(*   panic = TRUE                : the slice of the text bytes was out of   *)
(*                                 range                                    *)

ValueNone(off)      == [panic |-> FALSE, some |-> FALSE, val |-> <<>>, offset |-> off]
ValueSome(v, off)   == [panic |-> FALSE, some |-> TRUE,  val |-> v,    offset |-> off]
ValuePanic(off)     == [panic |-> TRUE,  some |-> FALSE, val |-> <<>>, offset |-> off]

\* variant of parse_value: text that is not UTF-8 is a failed read
parse_value_InvalidTextIsNone(d, off, vtype) ==
    IF vtype = VALUE_TYPE_STRING THEN
        IF off >= Len(d) THEN ValueNone(off)
        ELSE LET strlen == At(d, off)
             IN  IF off + 1 + strlen > Len(d) THEN ValuePanic(off)
                 ELSE LET bytes == Slice(d, off + 1, off + 1 + strlen)
                      IN  IF ValidUtf8(bytes) THEN ValueSome(bytes, off + 1 + strlen)
                          ELSE ValueNone(off)
    ELSE IF vtype = VALUE_TYPE_INT32 THEN
        IF off + 4 > Len(d) THEN ValueNone(off)
        ELSE ValueSome(I32ToString(I32LE(Slice(d, off, off + 4))), off + 4)
    ELSE IF vtype = VALUE_TYPE_BOOL THEN
        IF off >= Len(d) THEN ValueNone(off)
        ELSE ValueSome(IF At(d, off) # 0 THEN <<116, 114, 117, 101>>
                                         ELSE <<102, 97, 108, 115, 101>>,
                       off + 1)
    ELSE
        IF off + 4 > Len(d) THEN ValueNone(off)
        ELSE ValueSome(HexString(Slice(d, off, off + 4)), off + 4)

\* variant of parse_value: a signed-32 read moves the cursor before it
\* checks that 4 bytes are left
parse_value_AdvanceFirst(d, off, vtype) ==
    IF vtype = VALUE_TYPE_STRING THEN
        IF off >= Len(d) THEN ValueNone(off)
        ELSE LET strlen == At(d, off)
             IN  IF off + 1 + strlen > Len(d) THEN ValuePanic(off)
                 ELSE LET bytes == Slice(d, off + 1, off + 1 + strlen)
                          s     == IF ValidUtf8(bytes) THEN bytes ELSE <<>>
                      IN  ValueSome(s, off + 1 + strlen)
    ELSE IF vtype = VALUE_TYPE_INT32 THEN
        IF off + 4 > Len(d) THEN ValueNone(off + 4)
        ELSE ValueSome(I32ToString(I32LE(Slice(d, off, off + 4))), off + 4)
    ELSE IF vtype = VALUE_TYPE_BOOL THEN
        IF off >= Len(d) THEN ValueNone(off)
        ELSE ValueSome(IF At(d, off) # 0 THEN <<116, 114, 117, 101>>
                                         ELSE <<102, 97, 108, 115, 101>>,
                       off + 1)
    ELSE
        IF off + 4 > Len(d) THEN ValueNone(off)
        ELSE ValueSome(HexString(Slice(d, off, off + 4)), off + 4)

parse_value(d, off, vtype) ==
    IF vtype = VALUE_TYPE_STRING THEN
        IF off >= Len(d) THEN ValueNone(off)
        ELSE LET strlen == At(d, off)
             IN  IF off + 1 + strlen > Len(d) THEN ValuePanic(off)
                 ELSE LET bytes == Slice(d, off + 1, off + 1 + strlen)
                          s     == IF ValidUtf8(bytes) THEN bytes ELSE <<>>
                      IN  ValueSome(s, off + 1 + strlen)
    ELSE IF vtype = VALUE_TYPE_INT32 THEN
        IF off + 4 > Len(d) THEN ValueNone(off)
        ELSE ValueSome(I32ToString(I32LE(Slice(d, off, off + 4))), off + 4)
    ELSE IF vtype = VALUE_TYPE_BOOL THEN
        IF off >= Len(d) THEN ValueNone(off)
        ELSE ValueSome(IF At(d, off) # 0 THEN <<116, 114, 117, 101>>         \* "true"
                                         ELSE <<102, 97, 108, 115, 101>>,    \* "false"
                       off + 1)
    ELSE
        IF off + 4 > Len(d) THEN ValueNone(off)
        ELSE ValueSome(HexString(Slice(d, off, off + 4)), off + 4)

-----------------------------------------------------------------------------
(* parse_dictionary_vec: one call of the closure of `.map`, i.e. one pair.  *)
(* unwrap_or_default turns None into the empty string.                      *)

\* variant of DictStep: the value is read with the key's type tag
DictStep_KeyTypeForValue(d, off, ktype, vtype) ==
    LET k == parse_value(d, off, ktype)
        v == parse_value(d, k.offset, ktype)
    IN  IF k.panic THEN [panic |-> TRUE, pair |-> <<EMPTY, EMPTY>>, offset |-> off]
        ELSE IF v.panic THEN [panic |-> TRUE, pair |-> <<EMPTY, EMPTY>>, offset |-> k.offset]
        ELSE [panic |-> FALSE, pair |-> <<k.val, v.val>>, offset |-> v.offset]

DictStep(d, off, ktype, vtype) ==
    LET k == parse_value(d, off, ktype)
        v == parse_value(d, k.offset, vtype)
    IN  IF k.panic THEN [panic |-> TRUE, pair |-> <<EMPTY, EMPTY>>, offset |-> off]
        ELSE IF v.panic THEN [panic |-> TRUE, pair |-> <<EMPTY, EMPTY>>, offset |-> k.offset]
        ELSE [panic |-> FALSE, pair |-> <<k.val, v.val>>, offset |-> v.offset]

-----------------------------------------------------------------------------
(* parse_vingen4_file: one iteration of `while i < buffer.len()`.           *)
(*   skip  : buffer[i] is not the marker, i += 1                            *)
(*   break : the buffer is too short for the entry at i                     *)
(*   next  : the entry is classified and passed over, i = body_end          *)
(*   dict  : the entry is "VINGen4" with a dictionary header; d is          *)
(*           &body[offset..]                                                *)
(*   panic : read_header or &body[offset..] went out of range               *)

StepOut(kind, ni, d, kt, vt) ==
    [kind |-> kind, i |-> ni, data |-> d, key_type |-> kt, value_type |-> vt]

\* variant of MatchStep: a "VINGen4" entry that is not a dictionary ends the
\* scan with no result
MatchStep_StopAtNonDict(buf, body_start, body_end) ==
    LET body == Slice(buf, body_start, body_end)
        h    == read_header(body)
    IN  IF h.panic THEN StepOut("panic", body_start, <<>>, ZeroType, ZeroType)
        ELSE IF h.container_type = CONTAINER_TYPE_DICTIONARY
        THEN IF h.offset > Len(body)
             THEN StepOut("panic", body_start, <<>>, ZeroType, ZeroType)
             ELSE StepOut("dict", body_start, SliceFrom(body, h.offset),
                          h.key_type, h.value_type)
        ELSE StepOut("break", body_start, <<>>, ZeroType, ZeroType)

MatchStep(buf, body_start, body_end) ==
    LET body == Slice(buf, body_start, body_end)
        h    == read_header(body)
    IN  IF h.panic THEN StepOut("panic", body_start, <<>>, ZeroType, ZeroType)
        ELSE IF h.container_type = CONTAINER_TYPE_DICTIONARY
        THEN IF h.offset > Len(body)
             THEN StepOut("panic", body_start, <<>>, ZeroType, ZeroType)
             ELSE StepOut("dict", body_start, SliceFrom(body, h.offset),
                          h.key_type, h.value_type)
        ELSE StepOut("next", body_end, <<>>, ZeroType, ZeroType)

\* variant of ScanStep: after an entry with another tag the scan resumes at
\* the byte after the marker
ScanStep_ResumeAfterMarker(buf, k) ==
    IF At(buf, k) # HX_START_ENTRY THEN StepOut("skip", k + 1, <<>>, ZeroType, ZeroType)
    ELSE IF k + 1 >= Len(buf) THEN StepOut("break", k, <<>>, ZeroType, ZeroType)
    ELSE
      LET tag_size == At(buf, k + 1)
      IN  IF k + 2 + tag_size + 4 > Len(buf)
          THEN StepOut("break", k, <<>>, ZeroType, ZeroType)
          ELSE
            LET tag        == Slice(buf, k + 2, k + 2 + tag_size)
                body_len   == U32LE(Slice(buf, k + 2 + tag_size, k + 6 + tag_size))
                body_start == k + 2 + tag_size + 4
                body_end   == body_start + body_len
            IN  IF body_end > Len(buf)
                THEN StepOut("break", k, <<>>, ZeroType, ZeroType)
                ELSE IF tag = TargetTag
                THEN MatchStep(buf, body_start, body_end)
                ELSE StepOut("next", k + 1, <<>>, ZeroType, ZeroType)

\* variant of ScanStep: a marker whose entry does not fit in the buffer is
\* stepped over like any other byte
ScanStep_SkipTruncated(buf, k) ==
    IF At(buf, k) # HX_START_ENTRY THEN StepOut("skip", k + 1, <<>>, ZeroType, ZeroType)
    ELSE IF k + 1 >= Len(buf) THEN StepOut("skip", k + 1, <<>>, ZeroType, ZeroType)
    ELSE
      LET tag_size == At(buf, k + 1)
      IN  IF k + 2 + tag_size + 4 > Len(buf)
          THEN StepOut("skip", k + 1, <<>>, ZeroType, ZeroType)
          ELSE
            LET tag        == Slice(buf, k + 2, k + 2 + tag_size)
                body_len   == U32LE(Slice(buf, k + 2 + tag_size, k + 6 + tag_size))
                body_start == k + 2 + tag_size + 4
                body_end   == body_start + body_len
            IN  IF body_end > Len(buf)
                THEN StepOut("skip", k + 1, <<>>, ZeroType, ZeroType)
                ELSE IF tag = TargetTag
                THEN MatchStep(buf, body_start, body_end)
                ELSE StepOut("next", body_end, <<>>, ZeroType, ZeroType)

\* variant of ScanStep: a byte that is not the marker is not stepped over
ScanStep_StayOnByte(buf, k) ==
    IF At(buf, k) # HX_START_ENTRY THEN StepOut("skip", k, <<>>, ZeroType, ZeroType)
    ELSE IF k + 1 >= Len(buf) THEN StepOut("break", k, <<>>, ZeroType, ZeroType)
    ELSE
      LET tag_size == At(buf, k + 1)
      IN  IF k + 2 + tag_size + 4 > Len(buf)
          THEN StepOut("break", k, <<>>, ZeroType, ZeroType)
          ELSE
            LET tag        == Slice(buf, k + 2, k + 2 + tag_size)
                body_len   == U32LE(Slice(buf, k + 2 + tag_size, k + 6 + tag_size))
                body_start == k + 2 + tag_size + 4
                body_end   == body_start + body_len
            IN  IF body_end > Len(buf)
                THEN StepOut("break", k, <<>>, ZeroType, ZeroType)
                ELSE IF tag = TargetTag
                THEN MatchStep(buf, body_start, body_end)
                ELSE StepOut("next", body_end, <<>>, ZeroType, ZeroType)

ScanStep(buf, k) ==
    IF At(buf, k) # HX_START_ENTRY THEN StepOut("skip", k + 1, <<>>, ZeroType, ZeroType)
    ELSE IF k + 1 >= Len(buf) THEN StepOut("break", k, <<>>, ZeroType, ZeroType)
    ELSE
      LET tag_size == At(buf, k + 1)
      IN  IF k + 2 + tag_size + 4 > Len(buf)
          THEN StepOut("break", k, <<>>, ZeroType, ZeroType)
          ELSE
            LET tag        == Slice(buf, k + 2, k + 2 + tag_size)
                body_len   == U32LE(Slice(buf, k + 2 + tag_size, k + 6 + tag_size))
                body_start == k + 2 + tag_size + 4
                body_end   == body_start + body_len
            IN  IF body_end > Len(buf)
                THEN StepOut("break", k, <<>>, ZeroType, ZeroType)
                ELSE IF tag = TargetTag
                THEN MatchStep(buf, body_start, body_end)
                ELSE StepOut("next", body_end, <<>>, ZeroType, ZeroType)

-----------------------------------------------------------------------------
(* Input buffers.  Everything from here to InitFile builds the files the    *)
(* scan is run on and records, in the ghost variable src, how each was      *)
(* built and what its values mean.  None of it is read by the program.      *)

\* bounds of the input space
MaxPairs == 2       \* pairs in a generated dictionary
MaxJunk  == 2       \* non-marker bytes in front of the first entry

\* a number as 4 little-endian bytes (the producer's side of U32LE)
LE32(n) == <<n % 256, (n \div 256) % 256, (n \div 65536) % 256, (n \div 16777216) % 256>>

RECURSIVE Flatten(_)
Flatten(ss) == IF ss = <<>> THEN <<>> ELSE Head(ss) \o Flatten(Tail(ss))

Take(s, n) == SubSeq(s, 1, n)

\* the value types a producer may write
TypeKinds == {"str", "i32", "bool", "zero", "other"}

TypeTag(k) ==
    CASE k = "str"   -> VALUE_TYPE_STRING
      [] k = "i32"   -> VALUE_TYPE_INT32
      [] k = "bool"  -> VALUE_TYPE_BOOL
      [] k = "zero"  -> ZeroType
      [] k = "other" -> <<1, 2, 3, 4>>

\* Sample values: enc is what the producer writes, txt the text the value
\* stands for, written out by hand (so "42" is <<52, 50>>).
Samples(k) ==
    CASE k = "str" ->
           << [enc |-> <<3, 70, 111, 111>>, txt |-> <<70, 111, 111>>],       \* "Foo"
              [enc |-> <<2, 255, 65>>,      txt |-> <<>>],                    \* not UTF-8
              [enc |-> <<0>>,               txt |-> <<>>],                    \* ""
              [enc |-> <<2, 195, 169>>,     txt |-> <<195, 169>>],            \* e-acute
              [enc |-> <<1, 126>>,          txt |-> <<126>>] >>               \* "~"
      [] k = "i32" ->
           << [enc |-> <<255, 255, 255, 255>>,  txt |-> <<45, 49>>],          \* -1
              [enc |-> <<42, 0, 0, 0>>,         txt |-> <<52, 50>>],          \* 42
              [enc |-> <<0, 0, 0, 128>>,                                      \* -2147483648
               txt |-> <<45, 50, 49, 52, 55, 52, 56, 51, 54, 52, 56>>],
              [enc |-> <<57, 48, 0, 0>>,        txt |-> <<49, 50, 51, 52, 53>>] >> \* 12345
      [] k = "bool" ->
           << [enc |-> <<1>>, txt |-> <<116, 114, 117, 101>>],                \* true
              [enc |-> <<0>>, txt |-> <<102, 97, 108, 115, 101>>],            \* false
              [enc |-> <<2>>, txt |-> <<116, 114, 117, 101>>] >>              \* true
      [] k = "zero" ->
           << [enc |-> <<0, 0, 0, 0>>,                                        \* 00000000
               txt |-> <<48, 48, 48, 48, 48, 48, 48, 48>>],
              [enc |-> <<222, 173, 190, 239>>,                                \* deadbeef
               txt |-> <<100, 101, 97, 100, 98, 101, 101, 102>>],
              [enc |-> <<10, 126, 255, 1>>,                                   \* 0a7eff01
               txt |-> <<48, 97, 55, 101, 102, 102, 48, 49>>] >>
      [] k = "other" ->
           << [enc |-> <<18, 52, 171, 205>>,                                  \* 1234abcd
               txt |-> <<49, 50, 51, 52, 97, 98, 99, 100>>],
              [enc |-> <<0, 9, 160, 15>>,                                     \* 0009a00f
               txt |-> <<48, 48, 48, 57, 97, 48, 48, 102>>] >>

Pick(k, r) == Samples(k)[((r - 1) % Len(Samples(k))) + 1]

\* A dictionary: key kind kt, value kind vt, n pairs; pair j takes key sample
\* r + j - 1 and value sample r + j (cyclically).
Dicts ==
    { [kt |-> kt, vt |-> vt, n |-> n, r |-> r] :
        kt \in TypeKinds, vt \in TypeKinds, n \in 0..MaxPairs, r \in 1..3 }

DictKey(d, j) == Pick(d.kt, d.r + j - 1)
DictVal(d, j) == Pick(d.vt, d.r + j)

\* what the dictionary means: its pairs as text, in producer order
DictWant(d) == [j \in 1..d.n |-> <<DictKey(d, j).txt, DictVal(d, j).txt>>]

\* container header as the producer writes it (byte 1 reserved, property
\* size 1 byte after a zero key type, else 2 bytes)
DictHeader(d) ==
    <<CONTAINER_TYPE_DICTIONARY, 0>> \o TypeTag(d.kt) \o TypeTag(d.vt)
      \o (IF TypeTag(d.kt) = ZeroType THEN <<7>> ELSE <<7, 126>>)

DictData(d) ==
    LE32(d.n) \o Flatten([j \in 1..d.n |-> DictKey(d, j).enc \o DictVal(d, j).enc])

DictBody(d) == DictHeader(d) \o DictData(d)

\* offset in DictData(d) one past the j-th value, for j in 0..2n counting
\* keys and values alternately (0: just after the count)
RECURSIVE ValueEnd(_, _)
ValueEnd(d, m) ==
    IF m = 0 THEN 4
    ELSE ValueEnd(d, m - 1)
           + Len(IF m % 2 = 1 THEN DictKey(d, (m + 1) \div 2).enc
                              ELSE DictVal(d, m \div 2).enc)

\* a body of a container that is not a dictionary: kind, reserved byte,
\* value type, 1-byte property size, some payload
NonDictKinds == {0, 255, 16}
NonDictBody(kind) == <<kind, 0>> \o VALUE_TYPE_INT32 \o <<7>> \o <<126, 1, 0, 0, 0>>

\* entries as the ghost records them.  declared is the body length written
\* in the entry; class says what the entry is; dict is the dictionary the
\* body was written from and want its meaning.
Ent(tag, body, declared, class, dict) ==
    [tag |-> tag, body |-> body, declared |-> declared, class |-> class, dict |-> dict,
     want |-> DictWant(dict)]

EntBytes(e) ==
    <<HX_START_ENTRY, Len(e.tag)>> \o e.tag \o LE32(e.declared) \o e.body

\* the dictionary recorded for an entry that holds none
NoDict == [kt |-> "zero", vt |-> "zero", n |-> 0, r |-> 1]

DictEnt(d)     == Ent(TargetTag, DictBody(d), Len(DictBody(d)), "dict", d)
NonDictEnt(k)  == Ent(TargetTag, NonDictBody(k), Len(NonDictBody(k)), "nondict", NoDict)
OtherEnt(t, b) == Ent(t, b, Len(b), "other", NoDict)

\* a fixed dictionary used where the dictionary itself is not the point
RefDict == [kt |-> "str", vt |-> "i32", n |-> 1, r |-> 1]

\* entries with other tags: "Foo", the empty tag, "VINGen" and "VINGen4x"
\* (near misses of the target), a tag holding the marker byte; bodies that
\* hold marker bytes, and one that holds a complete "VINGen4" entry.
Others ==
    { OtherEnt(<<70, 111, 111>>, <<1, 2, 3>>),
      OtherEnt(<<>>, <<>>),
      OtherEnt(<<86, 73, 78, 71, 101, 110>>, <<126, 0, 126>>),
      OtherEnt(<<86, 73, 78, 71, 101, 110, 52, 120>>, <<126>>),
      OtherEnt(<<65, 126, 66>>, <<126, 7>>) }

Embedding(d) == OtherEnt(<<70, 111, 111>>, EntBytes(DictEnt(d)))

Junk(n) == [k \in 1..n |-> IF k % 2 = 1 THEN 0 ELSE 255]

Source(family, junk, ents, cut) ==
    [family |-> family, junk |-> junk, ents |-> ents, cut |-> cut]

Whole(junk, ents) == junk \o Flatten([k \in 1..Len(ents) |-> EntBytes(ents[k])])

\* the file a source stands for: junk, then the entries, cut after src.cut bytes
BufferOf(s) == Take(Whole(s.junk, s.ents), s.cut)

Full(family, junk, ents) == Source(family, junk, ents, Len(Whole(junk, ents)))

\* well-formed files: complete entries, exactly one of them "VINGen4", a dictionary
WellSources ==
    { Full("well", <<>>, pre \o <<DictEnt(d)>> \o post) :
        d \in Dicts,
        pre \in {<<>>} \cup {<<o>> : o \in Others},
        post \in {<<>>, <<OtherEnt(<<70, 111, 111>>, <<1, 2, 3>>)>>} }

\* the same with bytes that are not markers in front
JunkSources ==
    { Full("junk", Junk(n), <<DictEnt(d)>>) : n \in 1..MaxJunk, d \in {RefDict} }

\* a complete "VINGen4" entry whose body is only the first t bytes of a body
ShortSources ==
    { Full("short", <<>>,
           << [DictEnt(x[1]) EXCEPT !.body = Take(DictBody(x[1]), x[2]), !.declared = x[2],
                                    !.class = "shortdict"] >>) :
        x \in UNION { {<<d, t>> : t \in 0..(Len(DictBody(d)) - 1)} :
                        d \in {y \in Dicts : y.n = MaxPairs} \cup {RefDict} } }
    \cup
    { Full("short", <<>>,
           << [NonDictEnt(x[1]) EXCEPT !.body = Take(NonDictBody(x[1]), x[2]),
                                       !.declared = x[2], !.class = "shortnondict"] >>) :
        x \in UNION { {<<k, t>> : t \in 0..(Len(NonDictBody(k)) - 1)} : k \in NonDictKinds } }

\* the first "VINGen4" entry is not a dictionary, a later one is
NonDictFirstSources ==
    { Full("nondictfirst", <<>>, <<NonDictEnt(k)>> \o mid \o <<DictEnt(d)>>) :
        k \in NonDictKinds, d \in {x \in Dicts : x.r = 1 /\ x.n = 1},
        mid \in {<<>>, <<OtherEnt(<<70, 111, 111>>, <<1, 2, 3>>)>>} }

\* a complete "VINGen4" entry lies inside the body of an entry tagged "Foo"
EmbeddedSources ==
    { Full("embedded", <<>>, <<Embedding(d)>> \o post) :
        d \in {x \in Dicts : x.r = 1 /\ x.n = 1},
        post \in {<<>>, <<OtherEnt(<<>>, <<>>)>>, <<DictEnt(RefDict)>>} }

\* a well-formed file cut short, and an entry that declares more body than
\* the file holds in front of a complete "VINGen4" entry
CutLayouts ==
    { <<DictEnt(RefDict)>>,
      <<OtherEnt(<<70, 111, 111>>, <<1, 2, 3>>), DictEnt(RefDict)>>,
      <<NonDictEnt(0), DictEnt(RefDict)>> }

CutSources ==
    UNION { {Source("cut", <<>>, ents, c) : c \in 0..(Len(Whole(<<>>, ents)) - 1)} :
              ents \in CutLayouts }
    \cup
    { Full("overlong", <<>>,
           << [e EXCEPT !.declared = Len(e.body) + extra], DictEnt(RefDict) >>) :
        e \in {OtherEnt(<<70, 111, 111>>, <<>>), DictEnt(RefDict)}, extra \in {40, 300} }

Sources ==
    WellSources \cup JunkSources \cup ShortSources \cup NonDictFirstSources
      \cup EmbeddedSources \cup CutSources

-----------------------------------------------------------------------------
(* The binary pipeline as a state machine: parse_vingen4_file on a file     *)
(* holding BufferOf(src).  pc is "scan" in the while loop, "dict" inside    *)
(* parse_dictionary_vec, "done" after the return and "panic" after a Rust   *)
(* panic.                                                                   *)

InitFile ==
    /\ src \in Sources
    /\ buffer = BufferOf(src)
    /\ i = 0
    /\ pc = "scan"
    /\ result = None
    /\ data = <<>> /\ key_type = ZeroType /\ value_type = ZeroType
    /\ count = 0 /\ offset = 0 /\ pairs = <<>>
    /\ vin = <<>> /\ pos = 0 /\ field = 0 /\ vals = <<>>
    /\ rows = <<>>
    /\ AppIdle

InScan == pc = "scan" /\ i < Len(buffer)

\* lines 247-250: not a marker
ScanSkipByte ==
    /\ InScan
    /\ ScanStep(buffer, i).kind = "skip"
    /\ i' = ScanStep(buffer, i).i
    /\ UNCHANGED <<src, buffer, pc, result, data, key_type, value_type, count,
                   offset, pairs, vin, pos, field, vals>>
    /\ UNCHANGED <<rows, appVars>>

\* lines 251-253, 255-257, 267-269: `break`, then line 281 returns None
ScanBreak ==
    /\ InScan
    /\ ScanStep(buffer, i).kind = "break"
    /\ pc' = "done"
    /\ result' = None
    /\ UNCHANGED <<src, buffer, i, data, key_type, value_type, count,
                   offset, pairs, vin, pos, field, vals>>
    /\ UNCHANGED <<rows, appVars>>

\* line 279: the entry is passed over (another tag, or "VINGen4" that is not
\* a dictionary)
ScanNextEntry ==
    /\ InScan
    /\ ScanStep(buffer, i).kind = "next"
    /\ i' = ScanStep(buffer, i).i
    /\ UNCHANGED <<src, buffer, pc, result, data, key_type, value_type, count,
                   offset, pairs, vin, pos, field, vals>>
    /\ UNCHANGED <<rows, appVars>>

\* lines 272, 274: read_header or &body[offset..] panics
ScanPanic ==
    /\ InScan
    /\ ScanStep(buffer, i).kind = "panic"
    /\ pc' = "panic"
    /\ UNCHANGED <<src, buffer, i, result, data, key_type, value_type, count,
                   offset, pairs, vin, pos, field, vals>>
    /\ UNCHANGED <<rows, appVars>>

\* line 274 with lines 226-228: the data region has fewer than 4 bytes
DictTooShort ==
    /\ InScan
    /\ ScanStep(buffer, i).kind = "dict"
    /\ Len(ScanStep(buffer, i).data) < 4
    /\ pc' = "done"
    /\ result' = Some(<<>>)
    /\ UNCHANGED <<src, buffer, i, data, key_type, value_type, count,
                   offset, pairs, vin, pos, field, vals>>
    /\ UNCHANGED <<rows, appVars>>

\* line 274 with lines 229-230: parse_dictionary_vec reads the count
DictEnter ==
    /\ InScan
    /\ LET st == ScanStep(buffer, i)
       IN  /\ st.kind = "dict"
           /\ Len(st.data) >= 4
           /\ data' = st.data
           /\ key_type' = st.key_type
           /\ value_type' = st.value_type
           /\ count' = U32LE(Slice(st.data, 0, 4))
    /\ offset' = 4
    /\ pairs' = <<>>
    /\ pc' = "dict"
    /\ UNCHANGED <<src, buffer, i, result, vin, pos, field, vals>>
    /\ UNCHANGED <<rows, appVars>>

\* lines 232-236: one pair
DictPair ==
    /\ pc = "dict"
    /\ Len(pairs) < count
    /\ LET st == DictStep(data, offset, key_type, value_type)
       IN  /\ ~st.panic
           /\ pairs' = Append(pairs, st.pair)
           /\ offset' = st.offset
    /\ UNCHANGED <<src, buffer, i, pc, result, data, key_type, value_type, count,
                   vin, pos, field, vals>>
    /\ UNCHANGED <<rows, appVars>>

\* line 189: the text slice is out of range
DictPairPanic ==
    /\ pc = "dict"
    /\ Len(pairs) < count
    /\ DictStep(data, offset, key_type, value_type).panic
    /\ pc' = "panic"
    /\ UNCHANGED <<src, buffer, i, result, data, key_type, value_type, count,
                   offset, pairs, vin, pos, field, vals>>
    /\ UNCHANGED <<rows, appVars>>

\* lines 237, 275: collect and return Some(dict)
DictReturn ==
    /\ pc = "dict"
    /\ Len(pairs) = count
    /\ pc' = "done"
    /\ result' = Some(pairs)
    /\ UNCHANGED <<src, buffer, i, data, key_type, value_type, count,
                   offset, pairs, vin, pos, field, vals>>
    /\ UNCHANGED <<rows, appVars>>

\* lines 246, 281: the loop ends, return None
ScanEnd ==
    /\ pc = "scan"
    /\ i >= Len(buffer)
    /\ pc' = "done"
    /\ result' = None
    /\ UNCHANGED <<src, buffer, i, data, key_type, value_type, count,
                   offset, pairs, vin, pos, field, vals>>
    /\ UNCHANGED <<rows, appVars>>

NextFile ==
    \/ ScanSkipByte
    \/ ScanBreak
    \/ ScanNextEntry
    \/ ScanPanic
    \/ DictTooShort
    \/ DictEnter
    \/ DictPair
    \/ DictPairPanic
    \/ DictReturn
    \/ ScanEnd

Spec == InitFile /\ [][NextFile]_vars

-----------------------------------------------------------------------------
(* Properties of the binary pipeline (specification Spec).                  *)

\* what the ghost knows of the layout of the file
EntSize(e) == Len(EntBytes(e))

RECURSIVE EntStart(_, _)
EntStart(s, k) ==
    IF k = 1 THEN Len(s.junk) ELSE EntStart(s, k - 1) + EntSize(s.ents[k - 1])

\* offsets at which an entry starts, and the offset after the last entry
Boundaries(s) == {EntStart(s, k) : k \in 1..(Len(s.ents) + 1)}

LastEnt(s) == s.ents[Len(s.ents)]

TheDictOf(s) == CHOOSE e \in {s.ents[k] : k \in DOMAIN s.ents} : e.class = "dict"

FooText == <<70, 111, 111>>     \* "Foo"
Text42  == <<52, 50>>           \* "42"

\* C1: a well-formed file (complete entries only) with exactly one "VINGen4"
\* entry, a dictionary, is decoded without a panic to Some(pairs): as many
\* pairs as the pair-count read from the body, the j-th pair being the text of
\* the j-th key and value the producer wrote, in producer order.
C1_WellFormedDecoded ==
    src.family = "well" =>
        /\ pc # "panic"
        /\ pc = "done" =>
             /\ result = Some(TheDictOf(src).want)
             /\ Len(result.pairs) = count
             /\ count = TheDictOf(src).dict.n

\* C1 witness: the file of the example (text key "Foo", int32 value 42,
\* count 1) has been decoded to exactly [("Foo", "42")].
C1_Witness ==
    /\ pc = "done"
    /\ src.family = "well"
    /\ TheDictOf(src).dict = RefDict
    /\ result = Some(<< <<FooText, Text42>> >>)

\* C2 (as claimed): a complete "VINGen4" entry whose body is shorter than the
\* container header requires never makes the decoder panic.
C2_ShortBodyNeverPanics ==
    src.family = "short" => pc # "panic"

\* C5 (as claimed): when the first "VINGen4" entry in scan order is not a
\* dictionary, the result is None and no later "VINGen4" entry is returned.
C5_FirstMatchDecides ==
    (src.family = "nondictfirst" /\ pc = "done") => result = None

\* C5 (amended): a "VINGen4" entry whose header is read (body of at least 6
\* bytes) and whose kind is not 0x52 is passed over like an entry with another
\* tag; the result is that of the first later "VINGen4" dictionary entry, and
\* None only when the scan finds none.
C5_NonDictPassedOver ==
    /\ src.family = "nondictfirst" =>
         /\ pc # "panic"
         /\ pc = "scan" => i \in Boundaries(src)
         /\ pc = "done" => result = Some(LastEnt(src).want)
    /\ (src.family = "short" /\ src.ents[1].class = "shortnondict"
          /\ Len(src.ents[1].body) >= 6) =>
         /\ pc # "panic"
         /\ pc = "done" => (result = None /\ i = Len(buffer))

\* C5 witness: a file whose first "VINGen4" entry has kind 0x00 has been
\* scanned to the end and the later dictionary returned.
C5_Witness ==
    /\ pc = "done"
    /\ src.family = "nondictfirst"
    /\ src.ents[1].class = "nondict"
    /\ At(src.ents[1].body, 0) = 0
    /\ result.some
    /\ result.pairs # <<>>

\* C6: after an entry with another tag the scan resumes at the first byte
\* after its body: while scanning a file of complete entries the index is
\* always in the leading junk or at an entry boundary, and a complete
\* "VINGen4" entry lying inside the body of another entry is never returned.
C6_SkipWholeEntry ==
    /\ src.family \in {"well", "junk", "nondictfirst", "embedded"} =>
         (i <= Len(src.junk) \/ i \in Boundaries(src))
    /\ src.family = "embedded" =>
         /\ pc # "panic"
         /\ pc = "dict" => i = EntStart(src, Len(src.ents))
         /\ pc = "done" =>
              result = (IF LastEnt(src).class = "dict" THEN Some(LastEnt(src).want)
                                                          ELSE None)

\* C6 witness: a file whose only "VINGen4" dictionary entry lies inside the
\* body of an entry tagged "Foo" has been scanned to the end with no result.
C6_Witness ==
    /\ pc = "done"
    /\ src.family = "embedded"
    /\ Len(src.ents) = 1
    /\ i = Len(buffer)
    /\ result = None

\* offset of the marker at which a cut or overlong file runs out
StopAt(s) ==
    IF s.family = "overlong" THEN 0
    ELSE CHOOSE b \in Boundaries(s) :
           /\ b <= s.cut
           /\ \A c \in Boundaries(s) : c <= s.cut => c <= b

\* C7: when the file is too short for the entry at a marker (tag length,
\* tag, body length or declared body), the scan stops at that marker and the
\* result is None; nothing after the marker is examined, also not a complete
\* "VINGen4" entry that follows an entry declaring too long a body.
C7_TruncatedStops ==
    src.family \in {"cut", "overlong"} =>
        /\ pc \in {"scan", "done"}
        /\ pc = "done" => (result = None /\ i = StopAt(src))
        /\ i <= StopAt(src)

\* C7 witness: an entry declaring more body than the file holds, followed by
\* a complete "VINGen4" dictionary entry, has ended the scan at offset 0.
C7_Witness ==
    /\ pc = "done"
    /\ src.family = "overlong"
    /\ LastEnt(src).class = "dict"
    /\ i = 0
    /\ i < Len(buffer)
    /\ result = None

\* the first j pairs of the dictionary lie wholly inside a data region of len bytes
PairsInside(d, len) == {j \in 0..d.n : ValueEnd(d, 2 * j) <= len}

\* C8 (as claimed): for every data region of at least 4 bytes the dictionary
\* decode returns exactly count pairs; the pairs that lie wholly inside the
\* region are the producer's, and no read aborts the decode.
C8_AlwaysCountPairs ==
    (/\ src.family = "short"
     /\ src.ents[1].class = "shortdict"
     /\ Len(src.ents[1].body) >= Len(DictHeader(src.ents[1].dict)) + 4) =>
        /\ pc # "panic"
        /\ pc = "done" =>
             LET d   == src.ents[1].dict
                 len == Len(src.ents[1].body) - Len(DictHeader(d))
             IN  /\ result.some
                 /\ Len(result.pairs) = d.n
                 /\ \A j \in PairsInside(d, len) \ {0} : result.pairs[j] = DictWant(d)[j]

\* a text value at cursor off declares more bytes than the region holds
TextOverrun(d, off, vtype) ==
    /\ vtype = VALUE_TYPE_STRING
    /\ off < Len(d)
    /\ off + 1 + At(d, off) > Len(d)

\* C9 (as claimed): a text value whose length byte declares more bytes than
\* remain is read as "no value" (an empty string in the pair) and never
\* aborts the decode.
C9_TextOverrunIsNoValue ==
    (/\ pc \in {"dict", "panic"}
     /\ Len(pairs) < count
     /\ \/ TextOverrun(data, offset, key_type)
        \/ TextOverrun(data, parse_value(data, offset, key_type).offset, value_type)) =>
        pc # "panic"

\* the value of a lowercase hexadecimal digit, -1 for any other character
HexValue(c) ==
    IF c >= 48 /\ c <= 57 THEN c - 48
    ELSE IF c >= 97 /\ c <= 102 THEN c - 87
    ELSE 0 - 1

IsKnownType(t) == t \in {VALUE_TYPE_STRING, VALUE_TYPE_INT32, VALUE_TYPE_BOOL}

\* C10 for one call: type tag t, cursor off
UnknownTypeReadsHex(d, off, t) ==
    LET r == parse_value(d, off, t)
    IN  /\ ~r.panic
        /\ IF off + 4 <= Len(d)
           THEN /\ r.some
                /\ Len(r.val) = 8
                /\ \A j \in 1..4 :
                     /\ HexValue(r.val[2 * j - 1]) >= 0
                     /\ HexValue(r.val[2 * j]) >= 0
                     /\ 16 * HexValue(r.val[2 * j - 1]) + HexValue(r.val[2 * j])
                          = At(d, off + j - 1)
                /\ r.offset = off + 4
           ELSE /\ ~r.some
                /\ r.offset = off

\* C10: for a type tag other than text, signed-32 and boolean (0x00000000
\* included) parse_value with 4 bytes remaining returns the 8 lowercase hex
\* digits of the 4 bytes at the cursor, in buffer order, and advances the
\* cursor by 4; with fewer bytes it returns no value.  Checked at every cursor
\* of every data region the decoder enters, and on the decoded pairs.
C10_UnknownTypeHex ==
    pc \in {"dict", "done"} =>
        /\ \A t \in {key_type, value_type} :
             ~IsKnownType(t) =>
                \A off \in 0..Len(data) : UnknownTypeReadsHex(data, off, t)
        /\ (pc = "done" /\ src.family = "well" /\ ~IsKnownType(value_type)) =>
             \A j \in 1..Len(pairs) :
                pairs[j][2] = DictVal(TheDictOf(src).dict, j).txt

\* C10 witness: a value of type 0x00000000 holding DE AD BE EF has been
\* decoded to "deadbeef".
C10_Witness ==
    /\ pc = "done"
    /\ value_type = ZeroType
    /\ result.some
    /\ \E j \in 1..Len(result.pairs) :
         result.pairs[j][2] = <<100, 101, 97, 100, 98, 101, 101, 102>>

-----------------------------------------------------------------------------
(* The fixed-width pipeline: parse_vin over VIN_STRUCTURE.                  *)

VinField(key, display, len) == [key |-> key, display |-> display, len |-> len]

VIN_STRUCTURE ==
    << VinField("Country", "Country", 1),
       VinField("AssemblyPlant", "Assembly Plant", 1),
       VinField("Model", "Model", 1),
       VinField("Body", "Body", 1),
       VinField("Version", "Version", 1),
       VinField("Year", "Year", 1),
       VinField("Month", "Month", 1),
       VinField("Serial", "Serial", 5),
       VinField("Drive", "Drive", 1),
       VinField("Engine", "Engine", 2),
       VinField("Gearbox", "Gearbox", 1),
       VinField("AxleRatio", "Axle Ratio", 1),
       VinField("AxleLock", "Axle Lock", 1),
       VinField("ColorsBody", "Body Colour", 1),
       VinField("VinylRoof", "Vinyl Roof", 1),
       VinField("InteriorTrim", "Interior Trim", 1),
       VinField("Radio", "Radio", 1),
       VinField("InstrumentPanel", "Instrument Panel", 1),
       VinField("Windshield", "Windshield", 1),
       VinField("Seats", "Seats", 1),
       VinField("Suspension", "Suspension", 1),
       VinField("PowerBrakes", "Brakes", 1),
       VinField("Wheels", "Wheels", 1),
       VinField("WindowHeater", "Rear Window", 1) >>

\* variant of VinFieldValue: a range that runs past the end of the string is
\* clamped to it
VinFieldValue_Clamped(v, p, end) ==
    IF p >= Len(v) THEN EMPTY
    ELSE Slice(v, p, IF end <= Len(v) THEN end ELSE Len(v))

\* line 455: vin.get(pos..end).unwrap_or("").to_string()
VinFieldValue(v, p, end) ==
    LET g == StrGet(v, p, end) IN IF g.some THEN g.str ELSE EMPTY

\* HashMap::insert through collect(): a later pair replaces an earlier one
\* with the same key
MapInsert(m, k, v) == [x \in DOMAIN m \cup {k} |-> IF x = k THEN v ELSE m[x]]

EmptyMap == [x \in {} |-> <<>>]

\* bound of the input space: characters in a generated code string
MaxVinLen == 30

\* the 2 UTF-8 bytes of U+00C9, an uppercase letter outside ASCII
TwoByteChar == <<195, 137>>

\* A code string of n characters, all different: 'A', 'B', ... in order, with
\* character q (if q > 0) replaced by the two-byte letter.
VinString(n, q) ==
    Flatten([p \in 1..n |-> IF p = q THEN TwoByteChar ELSE <<64 + p>>])

VinInputs == {VinString(n, q) : n \in 0..MaxVinLen, q \in 0..MaxVinLen}

NoSource == Source("none", <<>>, <<>>, 0)

InitVin ==
    /\ vin \in VinInputs
    /\ pos = 0
    /\ field = 1
    /\ vals = EmptyMap
    /\ pc = "vin"
    /\ src = NoSource
    /\ buffer = <<>> /\ i = 0 /\ result = None
    /\ data = <<>> /\ key_type = ZeroType /\ value_type = ZeroType
    /\ count = 0 /\ offset = 0 /\ pairs = <<>>
    /\ rows = <<>>
    /\ AppIdle

\* lines 453-458: the closure of `.map` for one field
ParseVinField ==
    /\ pc = "vin"
    /\ field <= Len(VIN_STRUCTURE)
    /\ LET f   == VIN_STRUCTURE[field]
           end == pos + f.len
           val == VinFieldValue(vin, pos, end)
       IN  /\ pos' = end
           /\ vals' = MapInsert(vals, f.key, val)
    /\ field' = field + 1
    /\ UNCHANGED <<src, buffer, i, pc, result, data, key_type, value_type, count,
                   offset, pairs, vin>>
    /\ UNCHANGED <<rows, appVars>>

\* line 459: collect() returns the map
ParseVinReturn ==
    /\ pc = "vin"
    /\ field > Len(VIN_STRUCTURE)
    /\ pc' = "done"
    /\ UNCHANGED <<src, buffer, i, result, data, key_type, value_type, count,
                   offset, pairs, vin, pos, field, vals>>
    /\ UNCHANGED <<rows, appVars>>

NextVin ==
    \/ ParseVinField
    \/ ParseVinReturn

SpecVin == InitVin /\ [][NextVin]_vars

-----------------------------------------------------------------------------
(* Properties of the fixed-width pipeline (specification SpecVin).          *)

RECURSIVE WidthSum(_)
WidthSum(k) == IF k = 0 THEN 0 ELSE WidthSum(k - 1) + VIN_STRUCTURE[k].len

\* the sum of all schema widths
TotalWidth == WidthSum(Len(VIN_STRUCTURE))

\* the window of field k: [WindowStart(k), WindowEnd(k))
WindowStart(k) == WidthSum(k - 1)
WindowEnd(k)   == WidthSum(k)

\* the substrings of a returned map, concatenated in schema order
Joined(m) == Flatten([k \in 1..Len(VIN_STRUCTURE) |-> m[VIN_STRUCTURE[k].key]])

IsAscii(s) == \A k \in 1..Len(s) : s[k] < 128

Min(a, b) == IF a <= b THEN a ELSE b

\* the bytes of s that fall inside [a, b)
Available(s, a, b) == IF a >= Len(s) THEN <<>> ELSE Slice(s, a, Min(b, Len(s)))

\* C3 (as claimed): for every code string whose length is the sum of the
\* schema widths, the substrings returned by parse_vin, concatenated in schema
\* order, are the input: nothing lost, duplicated or reordered.
C3_RoundTrip ==
    (pc = "done" /\ src = NoSource /\ Len(vin) = TotalWidth) => Joined(vals) = vin

\* C3, restricted to code strings of ASCII characters: the round trip holds.
C3_RoundTripAscii ==
    (pc = "done" /\ src = NoSource /\ Len(vin) = TotalWidth /\ IsAscii(vin)) =>
        Joined(vals) = vin

\* C4 (as claimed): for a code string shorter than the total width every
\* field receives the characters of the input inside its window: the
\* available ones when the window straddles the end of the input, none when
\* the window starts at or after the end.
C4_ShortYieldsAvailable ==
    (pc = "done" /\ src = NoSource /\ Len(vin) < TotalWidth) =>
        \A k \in 1..Len(VIN_STRUCTURE) :
            vals[VIN_STRUCTURE[k].key] = Available(vin, WindowStart(k), WindowEnd(k))

\* C4 (amended): for a code string shorter than the total width parse_vin
\* returns a value for every field; a field whose window lies wholly inside
\* the input, on character boundaries, receives exactly the characters of the
\* window, and every other field, one whose window straddles the end of the
\* input included, receives the empty string.
C4_ShortYieldsWholeWindowOrEmpty ==
    (pc = "done" /\ src = NoSource /\ Len(vin) < TotalWidth) =>
        /\ DOMAIN vals = {VIN_STRUCTURE[k].key : k \in 1..Len(VIN_STRUCTURE)}
        /\ \A k \in 1..Len(VIN_STRUCTURE) :
             LET a == WindowStart(k)
                 b == WindowEnd(k)
             IN  vals[VIN_STRUCTURE[k].key] =
                   IF b <= Len(vin) /\ IsCharBoundary(vin, a) /\ IsCharBoundary(vin, b)
                   THEN Slice(vin, a, b)
                   ELSE <<>>

\* C4 witness: a 9-character ASCII code has been split; the window of Serial,
\* [7, 12), straddles the end of the input and Serial is empty, while the
\* fields before it hold their characters.
C4_Witness ==
    /\ pc = "done"
    /\ src = NoSource
    /\ Len(vin) = 9
    /\ IsAscii(vin)
    /\ vals["Month"] = <<71>>
    /\ vals["Serial"] = <<>>
    /\ vals["Drive"] = <<>>

-----------------------------------------------------------------------------
(* The presentation layer: render_vin_table over a value getter.            *)

\* lines 285-446: field key -> raw code -> description
decode_map ==
    [ Country |->
          ( <<85>> :> "Corris Britain" ),
      AssemblyPlant |->
          ( <<65>> :> "Dagenham"
          @@ <<66>> :> "Manchester"
          @@ <<67>> :> "Saarlouis"
          @@ <<75>> :> "Rheine" ),
      Model |->
          ( <<66>> :> "Rivett" ),
      Body |->
          ( <<66>> :> "2D Pillared Sedan" ),
      Version |->
          ( <<68>> :> "L"
          @@ <<69>> :> "LX"
          @@ <<71>> :> "SLX"
          @@ <<80>> :> "GT" ),
      Year |->
          ( <<76>> :> "1971"
          @@ <<77>> :> "1972"
          @@ <<78>> :> "1973"
          @@ <<80>> :> "1974 (Facelift)"
          @@ <<82>> :> "1975"
          @@ <<83>> :> "1976" ),
      Month |->
          ( <<67>> :> "01"
          @@ <<75>> :> "02"
          @@ <<68>> :> "03"
          @@ <<69>> :> "04"
          @@ <<76>> :> "05"
          @@ <<89>> :> "06"
          @@ <<83>> :> "07"
          @@ <<84>> :> "08"
          @@ <<74>> :> "09"
          @@ <<85>> :> "10"
          @@ <<77>> :> "11"
          @@ <<80>> :> "12" ),
      Drive |->
          ( <<49>> :> "RWD" ),
      Engine |->
          ( <<78, 65>> :> "Standard 2.0"
          @@ <<78, 69>> :> "High Performance 2.0" ),
      Gearbox |->
          ( <<55>> :> "3-spd Automatic"
          @@ <<66>> :> "4-spd Manual" ),
      AxleRatio |->
          ( <<83>> :> "3.44"
          @@ <<66>> :> "3.75"
          @@ <<67>> :> "3.89"
          @@ <<78>> :> "4.11"
          @@ <<69>> :> "4.44" ),
      AxleLock |->
          ( <<65>> :> "Open"
          @@ <<66>> :> "LSD" ),
      ColorsBody |->
          ( <<65>> :> "Dark Grey"
          @@ <<66>> :> "Nature White"
          @@ <<67>> :> "Sand"
          @@ <<68>> :> "Asphalt Grey"
          @@ <<69>> :> "Blue"
          @@ <<70>> :> "Sun Yellow"
          @@ <<71>> :> "Dark Navy"
          @@ <<72>> :> "Royal Red"
          @@ <<73>> :> "Brown"
          @@ <<74>> :> "Red"
          @@ <<75>> :> "Electric Green"
          @@ <<76>> :> "White Pearl"
          @@ <<77>> :> "Spring Green"
          @@ <<82>> :> "Purple"
          @@ <<84>> :> "Yellow"
          @@ <<85>> :> "Sky Blue"
          @@ <<86>> :> "Orange"
          @@ <<88>> :> "Navy Blue"
          @@ <<89>> :> "Special" ),
      VinylRoof |->
          ( <<45>> :> "Paint"
          @@ <<65>> :> "Black"
          @@ <<66>> :> "White"
          @@ <<67>> :> "Tan"
          @@ <<75>> :> "Blue"
          @@ <<77>> :> "Dark Brown" ),
      InteriorTrim |->
          ( <<78>> :> "Red"
          @@ <<65>> :> "Black"
          @@ <<75>> :> "Tan"
          @@ <<70>> :> "Blue"
          @@ <<89>> :> "Special" ),
      Radio |->
          ( <<45>> :> "Radio delete"
          @@ <<74>> :> "Radio" ),
      InstrumentPanel |->
          ( <<45>> :> "Standard"
          @@ <<71>> :> "Clock"
          @@ <<77>> :> "Tachometer" ),
      Windshield |->
          ( <<49>> :> "Clear"
          @@ <<50>> :> "Tinted"
          @@ <<70>> :> "Sunstrip" ),
      Seats |->
          ( <<56>> :> "Standard"
          @@ <<66>> :> "Bucket Style" ),
      Suspension |->
          ( <<65>> :> "Standard"
          @@ <<66>> :> "Standard + Stiffened"
          @@ <<52>> :> "Lowered"
          @@ <<77>> :> "Lowered + Stiffened" ),
      PowerBrakes |->
          ( <<45>> :> "Standard"
          @@ <<66>> :> "Power Brakes" ),
      Wheels |->
          ( <<65>> :> "13\" Steel"
          @@ <<66>> :> "13\" Steel + hubcaps"
          @@ <<52>> :> "14\" Sport"
          @@ <<77>> :> "14\" Steel / 14\" Octo" ),
      WindowHeater |->
          ( <<45>> :> "Standard"
          @@ <<66>> :> "Heated"
          @@ <<77>> :> "Standard + Window Grille" ) ]

\* Option<egui::Color32>
NoColor == [some |-> FALSE, rgb |-> <<0, 0, 0>>]
SomeColor(r, g, b) == [some |-> TRUE, rgb |-> <<r, g, b>>]

\* lines 463-506
color_for_code_with_field(f, code) ==
    IF f = "ColorsBody" THEN
        CASE code = <<65>> -> SomeColor(64, 64, 64)
          [] code = <<66>> -> SomeColor(240, 240, 240)
          [] code = <<67>> -> SomeColor(210, 180, 140)
          [] code = <<68>> -> SomeColor(80, 80, 80)
          [] code = <<69>> -> SomeColor(0, 80, 200)
          [] code = <<70>> -> SomeColor(255, 220, 40)
          [] code = <<71>> -> SomeColor(10, 10, 60)
          [] code = <<72>> -> SomeColor(180, 0, 0)
          [] code = <<73>> -> SomeColor(120, 80, 40)
          [] code = <<74>> -> SomeColor(200, 0, 0)
          [] code = <<75>> -> SomeColor(0, 200, 80)
          [] code = <<76>> -> SomeColor(255, 255, 255)
          [] code = <<77>> -> SomeColor(120, 255, 120)
          [] code = <<82>> -> SomeColor(160, 0, 160)
          [] code = <<84>> -> SomeColor(255, 255, 0)
          [] code = <<85>> -> SomeColor(120, 180, 255)
          [] code = <<86>> -> SomeColor(255, 120, 0)
          [] code = <<88>> -> SomeColor(0, 0, 120)
          [] code = <<89>> -> SomeColor(212, 175, 55)
          [] OTHER -> NoColor
    ELSE IF f = "VinylRoof" THEN
        CASE code = <<45>> -> SomeColor(200, 200, 200)
          [] code = <<65>> -> SomeColor(20, 20, 20)
          [] code = <<66>> -> SomeColor(255, 255, 255)
          [] code = <<67>> -> SomeColor(210, 180, 140)
          [] code = <<75>> -> SomeColor(0, 80, 200)
          [] code = <<77>> -> SomeColor(80, 40, 20)
          [] OTHER -> NoColor
    ELSE IF f = "InteriorTrim" THEN
        CASE code = <<78>> -> SomeColor(200, 0, 0)
          [] code = <<65>> -> SomeColor(20, 20, 20)
          [] code = <<75>> -> SomeColor(210, 180, 140)
          [] code = <<70>> -> SomeColor(0, 80, 200)
          [] code = <<89>> -> SomeColor(212, 175, 55)
          [] OTHER -> NoColor
    ELSE NoColor

\* the getters of lines 912-914 and 930-932: a missing key reads as EMPTY
get_value(m, key) == IF key \in DOMAIN m THEN m[key] ELSE EMPTY

Dash == <<45>>                                      \* "-"

\* variant of RowStatus: the serial number is flagged like any other field
RowStatus_SerialFlagged(key, val) ==
    IF key \in DOMAIN decode_map /\ val \in DOMAIN decode_map[key]
    THEN decode_map[key][val]
    ELSE IF val = Dash THEN "Standard / None"
    ELSE IF val # EMPTY THEN "!! [UNKNOWN] !!"
    ELSE ""

\* lines 574-581: the text of the "Decoded" column
RowStatus(key, val) ==
    IF key \in DOMAIN decode_map /\ val \in DOMAIN decode_map[key]
    THEN decode_map[key][val]
    ELSE IF val = Dash THEN "Standard / None"
    ELSE IF key # "Serial" /\ val # EMPTY THEN "!! [UNKNOWN] !!"
    ELSE ""

\* variant of render_color_swatch: the roof keeps the colour of its own code
render_color_swatch_OwnColour(field_key, val, body_val) ==
    IF field_key \in {"ColorsBody", "VinylRoof", "InteriorTrim"}
    THEN color_for_code_with_field(field_key, val)
    ELSE NoColor

\* lines 509-529: the colour of the swatch drawn, if one is drawn.  body_val
\* is what body_color_getter returns, always Some(..) at its one call site
\* (lines 586-588).
render_color_swatch(field_key, val, body_val) ==
    IF field_key \in {"ColorsBody", "VinylRoof", "InteriorTrim"}
    THEN IF field_key = "VinylRoof" /\ val = Dash
         THEN color_for_code_with_field("ColorsBody", body_val)
         ELSE color_for_code_with_field(field_key, val)
    ELSE NoColor

\* lines 572-590: one row of the grid
RenderRow(m, f) ==
    LET val == get_value(m, f.key)
    IN  [ display |-> f.display,
          val     |-> val,
          status  |-> RowStatus(f.key, val),
          swatch  |-> render_color_swatch(f.key, val, get_value(m, "ColorsBody")) ]

\* lines 449-460 as a function of the code string: the map parse_vin returns
RECURSIVE ParseVinFrom(_, _, _, _)
ParseVinFrom(v, k, p, m) ==
    IF k > Len(VIN_STRUCTURE) THEN m
    ELSE LET f   == VIN_STRUCTURE[k]
             end == p + f.len
         IN  ParseVinFrom(v, k + 1, end, MapInsert(m, f.key, VinFieldValue(v, p, end)))

parse_vin(v) == ParseVinFrom(v, 1, 0, EmptyMap)

\* "UABBGLC123451NA7SAE-N-M18A-A-": every field holds a code of its table
GoodVin ==
    <<85, 65, 66, 66, 71, 76, 67, 49, 50, 51, 52, 53, 49, 78, 65, 55, 83, 65,
      69, 45, 78, 45, 77, 49, 56, 65, 45, 65, 45>>

\* raw values tried in each field: "", "-", "Z", "ZZ", "A", "B", "E", "1",
\* "NA", "K", "12345"
RenderValues ==
    { <<>>, <<45>>, <<90>>, <<90, 90>>, <<65>>, <<66>>, <<69>>, <<49>>,
      <<78, 65>>, <<75>>, <<49, 50, 51, 52, 53>> }

\* body colours tried: "E", "A", "Z", "-", ""
BodyValues == { <<69>>, <<65>>, <<90>>, <<45>>, <<>> }

\* The value sources rendered: the fields of GoodVin with one field and the
\* body colour replaced, and a source that holds no key at all.
RenderInputs ==
    { MapInsert(MapInsert(parse_vin(GoodVin), "ColorsBody", b),
                VIN_STRUCTURE[k].key, v) :
        k \in 1..Len(VIN_STRUCTURE), v \in RenderValues, b \in BodyValues }
    \cup {EmptyMap}

InitRender ==
    /\ vals \in RenderInputs
    /\ field = 1
    /\ rows = <<>>
    /\ pc = "render"
    /\ src = NoSource
    /\ buffer = <<>> /\ i = 0 /\ result = None
    /\ data = <<>> /\ key_type = ZeroType /\ value_type = ZeroType
    /\ count = 0 /\ offset = 0 /\ pairs = <<>>
    /\ vin = <<>> /\ pos = 0
    /\ AppIdle

\* lines 572-590: the body of `for field in VIN_STRUCTURE`
RenderField ==
    /\ pc = "render"
    /\ field <= Len(VIN_STRUCTURE)
    /\ rows' = Append(rows, RenderRow(vals, VIN_STRUCTURE[field]))
    /\ field' = field + 1
    /\ UNCHANGED <<src, buffer, i, pc, result, data, key_type, value_type, count,
                   offset, pairs, vin, pos, vals, appVars>>

\* line 591: the grid is complete
RenderReturn ==
    /\ pc = "render"
    /\ field > Len(VIN_STRUCTURE)
    /\ pc' = "done"
    /\ UNCHANGED <<src, buffer, i, result, data, key_type, value_type, count,
                   offset, pairs, vin, pos, field, vals, rows, appVars>>

NextRender ==
    \/ RenderField
    \/ RenderReturn

SpecRender == InitRender /\ [][NextRender]_vars

-----------------------------------------------------------------------------
(* Properties of the presentation layer (specification SpecRender).         *)

Mapped(key, val) == key \in DOMAIN decode_map /\ val \in DOMAIN decode_map[key]

Unknown == "!! [UNKNOWN] !!"

\* C11: in the rendered table a raw value with no table entry is shown as
\* "Standard / None" when it is "-", is flagged as unknown when it is any
\* other non-empty value of a field other than Serial, and is not flagged
\* when the field is Serial or the value is empty; a value with a table entry
\* is shown with the description of that entry.
C11_UnmappedValueStatus ==
    \A j \in 1..Len(rows) :
        LET key == VIN_STRUCTURE[j].key
            val == get_value(vals, key)
            st  == rows[j].status
        IN  /\ rows[j].val = val
            /\ Mapped(key, val) => st = decode_map[key][val]
            /\ ~Mapped(key, val) /\ val = Dash => st = "Standard / None"
            /\ ~Mapped(key, val) /\ val # Dash /\ val # EMPTY /\ key # "Serial"
                  => st = Unknown
            /\ key = "Serial" /\ val # Dash => st = ""
            /\ val = EMPTY => st = ""

\* C11 witness: a finished table that shows a Serial of "12345" unflagged, an
\* unmapped "-" as standard, an unknown body colour flagged and a mapped code
\* with its description
C11_Witness ==
    /\ pc = "done"
    /\ Len(rows) = Len(VIN_STRUCTURE)
    /\ rows[8].val = <<49, 50, 51, 52, 53>> /\ rows[8].status = ""
    /\ \E j \in 1..Len(rows) :
          /\ rows[j].val = Dash
          /\ ~Mapped(VIN_STRUCTURE[j].key, Dash)
          /\ rows[j].status = "Standard / None"
    /\ rows[14].val = <<90>> /\ rows[14].status = Unknown
    /\ rows[2].val = <<65>> /\ rows[2].status = "Dagenham"

\* the rows of ColorsBody and VinylRoof in VIN_STRUCTURE
RowOf(key) == CHOOSE k \in 1..Len(VIN_STRUCTURE) : VIN_STRUCTURE[k].key = key
BodyRow == RowOf("ColorsBody")
RoofRow == RowOf("VinylRoof")

RoofIsPaint ==
    /\ Len(rows) >= RoofRow
    /\ get_value(vals, "VinylRoof") = Dash

\* C12 (as stated): when VinylRoof holds "-" and ColorsBody holds a code c of
\* its table, the description shown for VinylRoof is the description of
\* ColorsBody c.
C12_RoofPaintShowsBodyDescription ==
    RoofIsPaint /\ Mapped("ColorsBody", get_value(vals, "ColorsBody"))
        => rows[RoofRow].status = decode_map["ColorsBody"][get_value(vals, "ColorsBody")]

\* C12 (amended): when VinylRoof holds "-" the description shown for it is
\* "Paint", the entry of its own table, whatever the body colour is; what
\* follows the body colour is the swatch: the roof row draws the swatch of the
\* ColorsBody row, (0, 80, 200) for body colour "E", and none when the body
\* colour has no swatch.
C12_RoofPaintSwatchFollowsBody ==
    RoofIsPaint =>
        /\ rows[RoofRow].status = "Paint"
        /\ rows[RoofRow].swatch = rows[BodyRow].swatch
        /\ get_value(vals, "ColorsBody") = <<69>>
              => rows[RoofRow].swatch = SomeColor(0, 80, 200)
        /\ ~Mapped("ColorsBody", get_value(vals, "ColorsBody"))
              => ~rows[RoofRow].swatch.some

\* C12 witness: a finished table with roof "-" and body colour "E": the roof
\* row reads "Paint" beside a blue swatch, the body row reads "Blue"
C12_Witness ==
    /\ pc = "done"
    /\ RoofIsPaint
    /\ get_value(vals, "ColorsBody") = <<69>>
    /\ rows[BodyRow].status = "Blue"
    /\ rows[RoofRow].status = "Paint"
    /\ rows[RoofRow].swatch = SomeColor(0, 80, 200)

-----------------------------------------------------------------------------
(* The application: VinApp::update, one input event per frame.  pc is "gui" *)
(* between frames and "panic" after a Rust panic inside a frame.            *)

\* lines 225-238 as a function: the pairs after `count` rounds, or a panic
RECURSIVE DictRun(_, _, _, _, _, _)
DictRun(d, off, ktype, vtype, n, acc) ==
    IF Len(acc) = n THEN [panic |-> FALSE, result |-> Some(acc)]
    ELSE LET st == DictStep(d, off, ktype, vtype)
         IN  IF st.panic THEN [panic |-> TRUE, result |-> None]
             ELSE DictRun(d, st.offset, ktype, vtype, n, Append(acc, st.pair))

\* lines 225-238
parse_dictionary_vec(d, ktype, vtype) ==
    IF Len(d) < 4 THEN [panic |-> FALSE, result |-> Some(<<>>)]
    ELSE DictRun(d, 4, ktype, vtype, U32LE(Slice(d, 0, 4)), <<>>)

\* lines 246-281 as a function: the loop from index k on
RECURSIVE ScanFrom(_, _)
ScanFrom(buf, k) ==
    IF k >= Len(buf) THEN [panic |-> FALSE, result |-> None]
    ELSE LET st == ScanStep(buf, k)
         IN  CASE st.kind = "break" -> [panic |-> FALSE, result |-> None]
               [] st.kind = "panic" -> [panic |-> TRUE, result |-> None]
               [] st.kind = "dict"  ->
                      parse_dictionary_vec(st.data, st.key_type, st.value_type)
               [] OTHER -> ScanFrom(buf, st.i)

\* lines 241-282: a file that cannot be opened gives None
parse_vingen4_file(f) ==
    IF ~f.exists THEN [panic |-> FALSE, result |-> None]
    ELSE ScanFrom(f.bytes, 0)

\* line 848
RECURSIVE SumLen(_)
SumLen(k) == IF k = 0 THEN 0 ELSE SumLen(k - 1) + VIN_STRUCTURE[k].len

\* variant of vin_len: the number of fields
vin_len_FieldCount == Len(VIN_STRUCTURE)

\* line 848: VIN_STRUCTURE.iter().map(|f| f.len).sum()
vin_len == SumLen(Len(VIN_STRUCTURE))

\* White_Space below U+0080
IsSpace(b) == b \in {9, 10, 11, 12, 13, 32}

\* str::trim
RECURSIVE TrimStart(_)
TrimStart(s) ==
    IF s # <<>> /\ IsSpace(s[1]) THEN TrimStart(Tail(s)) ELSE s

RECURSIVE TrimEnd(_)
TrimEnd(s) ==
    IF s # <<>> /\ IsSpace(s[Len(s)]) THEN TrimEnd(SubSeq(s, 1, Len(s) - 1)) ELSE s

Trim(s) == TrimEnd(TrimStart(s))

\* str::replace(' ', "")
RemoveSpaces(s) == SelectSeq(s, LAMBDA b : b # 32)

\* str::to_uppercase on ASCII letters and on the two-byte letters U+00E0 to
\* U+00FE other than U+00F7 (C3 A0 .. C3 BE -> C3 80 .. C3 9E)
ToUppercase(s) ==
    [k \in 1..Len(s) |->
        IF s[k] >= 97 /\ s[k] <= 122 THEN s[k] - 32
        ELSE IF k > 1 /\ s[k - 1] = 195 /\ s[k] >= 160 /\ s[k] <= 190 /\ s[k] # 183
             THEN s[k] - 32
        ELSE s[k]]

\* variant of Normalise: spaces inside the text are kept
Normalise_KeepInnerSpaces(s) == ToUppercase(Trim(s))

\* line 866: self.vin_input.trim().replace(' ', "").to_uppercase()
Normalise(s) == ToUppercase(RemoveSpaces(Trim(s)))

\* std::env::temp_dir().join("dropped_carparts.txt")
TempPath == "dropped_carparts.txt"

\* "  uabb glc12345 1na7sae-n-m18a-a- ": GoodVin as a user may type it
TypedVin ==
    <<32, 32, 117, 97, 98, 98, 32, 103, 108, 99, 49, 50, 51, 52, 53, 32, 49,
      110, 97, 55, 115, 97, 101, 45, 110, 45, 109, 49, 56, 97, 45, 97, 45, 32>>

\* texts of the code input box: empty, GoodVin, GoodVin in lower case with
\* spaces, its first 24 characters, GoodVin with an unknown country, and 27
\* letters after a lower-case e-acute (29 bytes)
VinTexts ==
    { <<>>, GoodVin, TypedVin, Take(GoodVin, Len(VIN_STRUCTURE)),
      <<90>> \o Tail(GoodVin),
      <<195, 169>> \o Take(Tail(Tail(GoodVin)), 27) }

\* file contents: a "VINGen4" dictionary, another one behind other bytes,
\* a file with no "VINGen4" entry, and a "VINGen4" entry with an empty body
GoodFile == EntBytes(DictEnt(RefDict))
OtherFile ==
    Junk(1) \o EntBytes(DictEnt([kt |-> "str", vt |-> "bool", n |-> 2, r |-> 1]))
NoDataFile == Junk(2) \o EntBytes(OtherEnt(<<70, 111, 111>>, <<1, 2, 3>>))
BrokenFile == EntBytes(OtherEnt(TargetTag, <<>>))

Paths == {DefaultPath, "good.txt", "nodata.txt", "broken.txt", TempPath}

\* what a dropped payload may hold
DroppedBytes == {OtherFile, NoDataFile}

InitApp ==
    /\ vin_input = <<>>
    /\ entries = NoEntries
    /\ vin_error = NoVinError
    /\ file_path = DefaultPath
    /\ vingen4_entries = None
    /\ last_source = "None"
    /\ file_error = NoFileError
    /\ files = [p \in Paths |->
                  CASE p = "good.txt"   -> FileOf(GoodFile)
                    [] p = "nodata.txt" -> FileOf(NoDataFile)
                    [] p = "broken.txt" -> FileOf(BrokenFile)
                    [] OTHER            -> Absent]
    /\ event = NoEvent
    /\ pc = "gui"
    /\ src = NoSource
    /\ buffer = <<>> /\ i = 0 /\ result = None
    /\ data = <<>> /\ key_type = ZeroType /\ value_type = ZeroType
    /\ count = 0 /\ offset = 0 /\ pairs = <<>>
    /\ vin = <<>> /\ pos = 0 /\ field = 0 /\ vals = <<>>
    /\ rows = <<>>

Event(kind, path, text, calls) ==
    [kind |-> kind, path |-> path, text |-> text, parse_vin |-> calls]

\* variant of LoadParsed: the source is switched to File whatever the outcome
LoadParsed_AlwaysSwitch(f) ==
    LET r == parse_vingen4_file(f)
    IN  IF r.panic
        THEN /\ pc' = "panic"
             /\ UNCHANGED <<vingen4_entries, file_error, last_source>>
        ELSE IF r.result.some
        THEN /\ vingen4_entries' = r.result
             /\ file_error' = NoFileError
             /\ last_source' = "File"
             /\ UNCHANGED pc
        ELSE /\ file_error' = NoVinData
             /\ vingen4_entries' = None
             /\ last_source' = "File"
             /\ UNCHANGED pc

\* lines 698-710, 725-735 and 799-811: `match parse_vingen4_file(..)`
LoadParsed(f) ==
    LET r == parse_vingen4_file(f)
    IN  IF r.panic
        THEN /\ pc' = "panic"
             /\ UNCHANGED <<vingen4_entries, file_error, last_source>>
        ELSE IF r.result.some
        THEN /\ vingen4_entries' = r.result
             /\ file_error' = NoFileError
             /\ last_source' = "File"
             /\ UNCHANGED pc
        ELSE /\ file_error' = NoVinData
             /\ vingen4_entries' = None
             /\ UNCHANGED <<pc, last_source>>

\* lines 694-710 and 795-812: the existence test, then the match
LoadPath(p) ==
    IF ~files[p].exists
    THEN /\ file_error' = FileNotFound(p)
         /\ vingen4_entries' = None
         /\ UNCHANGED <<pc, last_source>>
    ELSE LoadParsed(files[p])

otherVars == <<src, buffer, i, result, data, key_type, value_type, count,
               offset, pairs, vin, pos, field, vals, rows>>

\* lines 836-840: typing in the code input box
EditVin ==
    /\ pc = "gui"
    /\ \E t \in VinTexts :
          /\ vin_input' = t
          /\ event' = Event("EditVin", "", t, <<>>)
    /\ UNCHANGED <<entries, vin_error, file_path, vingen4_entries, last_source,
                   file_error, files, pc, otherVars>>

\* lines 763-766: typing in the path box
EditPath ==
    /\ pc = "gui"
    /\ \E p \in Paths :
          /\ file_path' = p
          /\ event' = Event("EditPath", p, <<>>, <<>>)
    /\ UNCHANGED <<vin_input, entries, vin_error, vingen4_entries, last_source,
                   file_error, files, pc, otherVars>>

\* lines 769-780: Browse..., a file is picked
Browse ==
    /\ pc = "gui"
    /\ \E p \in Paths :
          /\ file_path' = p
          /\ event' = Event("Browse", p, <<>>, <<>>)
    /\ UNCHANGED <<vin_input, entries, vin_error, vingen4_entries, last_source,
                   file_error, files, pc, otherVars>>

\* lines 781-788: Reset
Reset ==
    /\ pc = "gui"
    /\ file_path' = DefaultPath
    /\ file_error' = NoFileError
    /\ event' = Event("Reset", "", <<>>, <<>>)
    /\ UNCHANGED <<vin_input, entries, vin_error, vingen4_entries, last_source,
                   files, pc, otherVars>>

\* lines 789-815: Load
Load ==
    /\ pc = "gui"
    /\ LoadPath(file_path)
    /\ event' = Event("Load", file_path, <<>>, <<>>)
    /\ UNCHANGED <<vin_input, entries, vin_error, file_path, files, otherVars>>

\* lines 690-711: a file with a native path is dropped on the window
DropPath ==
    /\ pc = "gui"
    /\ \E p \in Paths :
          /\ file_path' = p
          /\ LoadPath(p)
          /\ event' = Event("DropPath", p, <<>>, <<>>)
    /\ UNCHANGED <<vin_input, entries, vin_error, files, otherVars>>

\* lines 715-737: bytes without a path are dropped; nothing happens when the
\* temporary file cannot be created
DropBytes ==
    /\ pc = "gui"
    /\ \E bs \in DroppedBytes, created \in BOOLEAN :
          /\ event' = Event(IF created THEN "DropBytes" ELSE "DropBytesNoFile",
                            TempPath, bs, <<>>)
          /\ IF created
             THEN /\ files' = [files EXCEPT ![TempPath] = FileOf(bs)]
                  /\ file_path' = TempPath
                  /\ LoadParsed(FileOf(bs))
             ELSE UNCHANGED <<files, file_path, vingen4_entries, file_error,
                              last_source, pc>>
    /\ UNCHANGED <<vin_input, entries, vin_error, otherVars>>

\* variant of Decode: a refused code leaves the fields decoded before
Decode_KeepEntries ==
    /\ pc = "gui"
    /\ LET v == Normalise(vin_input)
       IN  IF Len(v) # vin_len
           THEN /\ vin_error' = InvalidVinLength(Len(v), vin_len)
                /\ entries' = entries
                /\ event' = Event("Decode", "", vin_input, <<>>)
           ELSE /\ entries' = SomeEntries(parse_vin(v))
                /\ vin_error' = NoVinError
                /\ event' = Event("Decode", "", vin_input, <<v>>)
    /\ last_source' = "Vin"
    /\ UNCHANGED <<vin_input, file_path, vingen4_entries, file_error, files, pc,
                   otherVars>>

\* lines 862-883: the Decode button, or Enter in the code input box
Decode ==
    /\ pc = "gui"
    /\ LET v == Normalise(vin_input)
       IN  IF Len(v) # vin_len
           THEN /\ vin_error' = InvalidVinLength(Len(v), vin_len)
                /\ entries' = NoEntries
                /\ event' = Event("Decode", "", vin_input, <<>>)
           ELSE /\ entries' = SomeEntries(parse_vin(v))
                /\ vin_error' = NoVinError
                /\ event' = Event("Decode", "", vin_input, <<v>>)
    /\ last_source' = "Vin"
    /\ UNCHANGED <<vin_input, file_path, vingen4_entries, file_error, files, pc,
                   otherVars>>

NextApp ==
    \/ EditVin
    \/ EditPath
    \/ Browse
    \/ Reset
    \/ Load
    \/ DropPath
    \/ DropBytes
    \/ Decode

SpecApp == InitApp /\ [][NextApp]_vars

\* parse_vingen4_file as a function agrees with the scan run step by step
ScanFromAgrees ==
    /\ pc = "done"  => ScanFrom(buffer, 0) = [panic |-> FALSE, result |-> result]
    /\ pc = "panic" => ScanFrom(buffer, 0).panic

\* parse_vin as a function agrees with the field loop run step by step
ParseVinAgrees == pc = "done" => parse_vin(vin) = vals

-----------------------------------------------------------------------------
(* Properties of the application (specification SpecApp).                   *)

SchemaWidths == [k \in 1..Len(VIN_STRUCTURE) |-> VIN_STRUCTURE[k].len]

ListedWidths ==
    <<1, 1, 1, 1, 1, 1, 1, 5, 1, 2, 1, 1, 1, 1, 1, 1, 1, 1, 1, 1, 1, 1, 1, 1>>

\* the length Decode expects, as its message and its call of parse_vin show it
ExpectedLengthIs(n) ==
    /\ vin_error.some => vin_error.expected = n /\ vin_error.actual # n
    /\ event.kind = "Decode" /\ event.parse_vin # <<>>
          => Len(event.parse_vin[1]) = n

\* C13 (as stated): the schema has 24 fields with the listed widths, and the
\* sum of the widths, the length Decode validates against, is 24.
C13_TotalWidthIs24 ==
    /\ Len(VIN_STRUCTURE) = 24
    /\ SchemaWidths = ListedWidths
    /\ vin_len = 24
    /\ ExpectedLengthIs(24)

\* C13 (amended): the schema has 24 fields with the listed widths, and the sum
\* of the widths, the length Decode validates against, is 29: every
\* validation message names 29 as the expected length and every code handed
\* to parse_vin is 29 bytes long.
C13_TotalWidthIs29 ==
    /\ Len(VIN_STRUCTURE) = 24
    /\ SchemaWidths = ListedWidths
    /\ vin_len = 29
    /\ ExpectedLengthIs(29)

\* C13 witness: Decode has refused a code of 24 characters, one per field,
\* naming 24 as the actual and 29 as the expected length
C13_Witness ==
    /\ event.kind = "Decode"
    /\ Len(Normalise(event.text)) = Len(VIN_STRUCTURE)
    /\ vin_error = InvalidVinLength(24, 29)
    /\ ~entries.some


\* C14: after every Decode event, parse_vin has been called only if the
\* input, trimmed, freed of spaces and put in upper case, is as long as the
\* sum of the schema widths, and then once, on that normalised text; on a
\* mismatch it has not been called, vin_error names the actual and the
\* expected length, and entries is cleared.
C14_DecodeChecksLength ==
    event.kind = "Decode" =>
        LET v == Normalise(event.text)
        IN  /\ event.text = vin_input
            /\ event.text = TypedVin => v = GoodVin
            /\ Len(v) = TotalWidth
                  => /\ event.parse_vin = <<v>>
                     /\ entries = SomeEntries(parse_vin(v))
                     /\ ~vin_error.some
            /\ Len(v) # TotalWidth
                  => /\ event.parse_vin = <<>>
                     /\ vin_error = InvalidVinLength(Len(v), TotalWidth)
                     /\ ~entries.some
            /\ \A k \in 1..Len(event.parse_vin) :
                  Len(event.parse_vin[k]) = TotalWidth

\* C14 witness: Decode on the typed text, lower case with spaces, has called
\* parse_vin on the 29 characters of GoodVin
C14_Witness ==
    /\ event.kind = "Decode"
    /\ event.text = TypedVin
    /\ event.parse_vin = <<GoodVin>>
    /\ entries.some /\ entries.map["Engine"] = <<78, 65>>

-----------------------------------------------------------------------------
(* Further properties of the binary pipeline (specification Spec).          *)

EntsOf(s) == {s.ents[k] : k \in DOMAIN s.ents}

\* the entry of the file that starts at offset k
EntAt(s, k) == CHOOSE e \in EntsOf(s) : \E j \in DOMAIN s.ents : s.ents[j] = e /\ EntStart(s, j) = k

\* what the claim says read_header returns for a body it can read
HeaderAsClaimed(body, h) ==
    LET kind == IF body[1] = 255 THEN 0 ELSE body[1]
    IN  /\ h.container_type = kind
        /\ kind = CONTAINER_TYPE_DICTIONARY
              => /\ h.key_type = <<body[3], body[4], body[5], body[6]>>
                 /\ h.value_type = <<body[7], body[8], body[9], body[10]>>
                 /\ h.offset = IF h.key_type = ZeroType THEN 11 ELSE 12
        /\ kind # CONTAINER_TYPE_DICTIONARY
              => /\ h.key_type = ZeroType
                 /\ h.value_type = <<body[3], body[4], body[5], body[6]>>
                 /\ h.offset = 7
        /\ Len(body) >= 2 => read_header([body EXCEPT ![2] = 255 - body[2]]) = h

\* C15: read_header reports kind 0x00 for a first byte of 0xFF and the first
\* byte itself otherwise, skips byte 1 whatever it holds, reads a key type
\* only for kind 0x52 (zero otherwise), and ends the header at offset 12 for
\* a dictionary with a non-zero key type, 11 for a dictionary with a zero key
\* type and 7 for any other kind; the dictionary data handed on starts there.
C15_HeaderLayout ==
    /\ \A e \in EntsOf(src) :
          e.tag = TargetTag /\ ~read_header(e.body).panic
              => HeaderAsClaimed(e.body, read_header(e.body))
    /\ pc = "dict" /\ src.family \in {"well", "junk", "nondictfirst"}
          => LET e == EntAt(src, i)
             IN  /\ key_type = TypeTag(e.dict.kt)
                 /\ value_type = TypeTag(e.dict.vt)
                 /\ data = SliceFrom(e.body, IF key_type = ZeroType THEN 11 ELSE 12)
                 /\ data = DictData(e.dict)

\* C15 witness: behind a "VINGen4" entry of kind 0xFF, read as kind 0x00 with
\* a 7-byte header, a dictionary with a zero key type is entered 11 bytes
\* into its body
C15_Witness ==
    /\ pc = "dict"
    /\ src.family = "nondictfirst"
    /\ src.ents[1].body[1] = 255
    /\ read_header(src.ents[1].body).container_type = 0
    /\ read_header(src.ents[1].body).offset = 7
    /\ key_type = ZeroType
    /\ Len(EntAt(src, i).body) = 11 + Len(data)


\* a text value, length byte and bytes, lies inside d at cursor off
TextInside(d, off) == off < Len(d) /\ off + 1 + At(d, off) <= Len(d)

\* C16: a text value that lies inside the data is always a value and moves
\* the cursor by 1 + n: bytes that are UTF-8 (all below 0x80, for one) are
\* returned as they are, bytes that are not (a byte 0xFF, for one) give the
\* empty string; so a dictionary with such a text is still decoded to the
\* producer's pairs, the empty string standing for the invalid text.
C16_InvalidTextAdvances ==
    /\ pc = "dict" =>
         \A off \in 0..Len(data) :
            TextInside(data, off) =>
               LET n     == At(data, off)
                   bytes == Slice(data, off + 1, off + 1 + n)
                   r     == parse_value(data, off, VALUE_TYPE_STRING)
               IN  /\ ~r.panic /\ r.some
                   /\ r.offset = off + 1 + n
                   /\ r.val \in {bytes, <<>>}
                   /\ IsAscii(bytes) => r.val = bytes
                   /\ (\E k \in 1..n : bytes[k] = 255) => r.val = <<>>
    /\ pc = "done" /\ src.family = "well"
         /\ "str" \in {TheDictOf(src).dict.kt, TheDictOf(src).dict.vt}
         => result = Some(TheDictOf(src).want)

\* C16 witness: a decoded dictionary of two pairs whose first key was written
\* as the bytes FF 41: the key reads as the empty string, and the value after
\* it and the second pair are the producer's
C16_Witness ==
    /\ pc = "done" /\ src.family = "well" /\ result.some
    /\ TheDictOf(src).dict.n = 2
    /\ DictKey(TheDictOf(src).dict, 1).enc = <<2, 255, 65>>
    /\ result.pairs[1] = <<EMPTY, DictVal(TheDictOf(src).dict, 1).txt>>
    /\ result.pairs[1][2] # EMPTY
    /\ result.pairs[2] = <<DictKey(TheDictOf(src).dict, 2).txt,
                           DictVal(TheDictOf(src).dict, 2).txt>>
    /\ result.pairs[2][2] # EMPTY


\* the number a decimal text stands for, summed on the non-positive side
RECURSIVE NegValue(_)
NegValue(s) ==
    IF s = <<>> THEN 0
    ELSE NegValue(SubSeq(s, 1, Len(s) - 1)) * 10 - (s[Len(s)] - 48)

DecimalValue(s) == IF s[1] = 45 THEN NegValue(Tail(s)) ELSE 0 - NegValue(s)

\* decimal text as i32::to_string writes it: digits, no leading zero, a
\* minus sign in front of negative numbers only
IsDecimal(s) ==
    LET ds == IF s # <<>> /\ s[1] = 45 THEN Tail(s) ELSE s
    IN  /\ ds # <<>>
        /\ \A k \in 1..Len(ds) : ds[k] >= 48 /\ ds[k] <= 57
        /\ ds[1] = 48 => Len(ds) = 1 /\ ds = s

\* bytes b0 b1 b2 b3 as a little-endian two's-complement number: the low 31
\* bits, minus 2^31 when the top bit is set
TwosComplement(b) ==
    LET low == b[1] + 256 * b[2] + 65536 * b[3] + 16777216 * (b[4] % 128)
    IN  IF b[4] >= 128 THEN low - 1073741824 - 1073741824 ELSE low

\* C17: with the signed-32 tag and at least 4 bytes left, parse_value returns
\* the decimal text of the 4 bytes read as a little-endian two's-complement
\* number ("-1" for FF FF FF FF, "-2147483648" for 00 00 00 80) and moves the
\* cursor by 4; with fewer than 4 bytes left it returns no value.
C17_Int32Decimal ==
    /\ parse_value(<<255, 255, 255, 255>>, 0, VALUE_TYPE_INT32).val = <<45, 49>>
    /\ parse_value(<<0, 0, 0, 128>>, 0, VALUE_TYPE_INT32).val
          = <<45, 50, 49, 52, 55, 52, 56, 51, 54, 52, 56>>
    /\ pc = "dict" =>
         \A off \in 0..Len(data) :
            LET r == parse_value(data, off, VALUE_TYPE_INT32)
            IN  /\ ~r.panic
                /\ off + 4 <= Len(data)
                      => /\ r.some
                         /\ r.offset = off + 4
                         /\ IsDecimal(r.val)
                         /\ DecimalValue(r.val)
                               = TwosComplement(Slice(data, off, off + 4))
                /\ off + 4 > Len(data) => ~r.some

\* C17 witness: a decoded dictionary of signed-32 keys and values that holds
\* the key "-2147483648" (written 00 00 00 80) and the value "-1" (written
\* FF FF FF FF)
C17_Witness ==
    /\ pc = "done" /\ src.family = "well" /\ result.some
    /\ TheDictOf(src).dict.kt = "i32" /\ TheDictOf(src).dict.vt = "i32"
    /\ Len(result.pairs) = 2
    /\ DictKey(TheDictOf(src).dict, 1).enc = <<0, 0, 0, 128>>
    /\ result.pairs[1][1] = <<45, 50, 49, 52, 55, 52, 56, 51, 54, 52, 56>>
    /\ DictVal(TheDictOf(src).dict, 2).enc = <<255, 255, 255, 255>>
    /\ result.pairs[2][2] = <<45, 49>>


\* one iteration of the scan loop that neither returns nor breaks
ScanIterates == pc = "scan" /\ pc' = "scan" /\ i < Len(buffer) /\ i' # i

\* C18: the scan of parse_vingen4_file terminates, its index being a variant:
\* an iteration that does not return or break always moves the index up, by
\* 1 from a byte that is not the marker and by at least 6 (to the end of the
\* body) from a marker; the index never goes down and never exceeds the
\* buffer length.
C18_ScanTerminates ==
    /\ [](pc = "scan" /\ i < Len(buffer)
            => LET st == ScanStep(buffer, i)
               IN  st.kind \in {"skip", "next"} => st.i > i /\ st.i <= Len(buffer))
    /\ [][ScanIterates =>
             /\ At(buffer, i) # HX_START_ENTRY => i' = i + 1
             /\ At(buffer, i) = HX_START_ENTRY => i' >= i + 6]_vars
    /\ [][i' >= i]_vars
    /\ [](i <= Len(buffer))

\* C18 witness: the scan stands on the marker of the second entry, inside the
\* buffer, having passed the 6 or more bytes of the first entry in one step
C18_Witness ==
    /\ pc = "scan"
    /\ Len(src.ents) >= 2
    /\ i = EntStart(src, 2)
    /\ i >= EntStart(src, 1) + 6
    /\ i < Len(buffer)
    /\ At(buffer, i) = HX_START_ENTRY


AllTags ==
    {VALUE_TYPE_STRING, VALUE_TYPE_INT32, VALUE_TYPE_BOOL, ZeroType, TypeTag("other")}

\* the size of the value of type t at cursor off of d
ValueSize(d, off, t) ==
    IF t = VALUE_TYPE_STRING THEN 1 + At(d, off)
    ELSE IF t = VALUE_TYPE_BOOL THEN 1
    ELSE 4

\* C19: a parse_value that returns None leaves the cursor where it was; one
\* that returns a value has moved it by the size of the value, to at most
\* the data length; so the cursor of parse_dictionary_vec never goes down,
\* and after a failed key read the value is read at the position of the key.
C19_CursorFrame ==
    /\ [](pc = "dict" =>
            \A t \in AllTags, off \in 0..Len(data) :
               LET r == parse_value(data, off, t)
               IN  /\ ~r.panic /\ ~r.some => r.offset = off
                   /\ r.some => /\ r.offset = off + ValueSize(data, off, t)
                                /\ r.offset <= Len(data))
    /\ [](pc = "dict" /\ Len(pairs) < count =>
            LET k  == parse_value(data, offset, key_type)
                v  == parse_value(data, offset, value_type)
                st == DictStep(data, offset, key_type, value_type)
            IN  ~k.panic /\ ~k.some /\ ~st.panic
                   => /\ st.offset = v.offset
                      /\ st.pair = <<EMPTY, IF v.some THEN v.val ELSE EMPTY>>)
    /\ [][offset' >= offset]_vars
    /\ [](offset <= Len(data) \/ pc # "dict")

\* C19 witness: with one byte of data after the count, the signed-32 key read
\* has failed without moving the cursor and the boolean value was read from
\* that byte
C19_Witness ==
    /\ pc = "dict"
    /\ key_type = VALUE_TYPE_INT32 /\ value_type = VALUE_TYPE_BOOL
    /\ Len(data) = 5
    /\ Len(pairs) = 1
    /\ pairs[1][1] = EMPTY
    /\ pairs[1][2] # EMPTY
    /\ offset = 5


\* the frame handled a file load that ran to its end
LoadEvent == event'.kind \in {"Load", "DropPath", "DropBytes"} /\ pc' = "gui"

\* the file the load read holds a "VINGen4" dictionary (known from how the
\* files were written)
LoadedGood == files'[event'.path] \in {FileOf(GoodFile), FileOf(OtherFile)}

\* C20: a file load (Load or drag-and-drop) that succeeds switches
\* last_source to File; one that fails, the file being missing or holding no
\* VIN data, leaves last_source, entries and vin_error as they were and
\* clears vingen4_entries; last_source becomes File in no other way.  A
\* Decode event sets last_source to Vin, also when the length check fails,
\* and leaves vingen4_entries and file_error as they were.
C20_SourceFollowsLastAttempt ==
    /\ [][LoadEvent /\ LoadedGood
             => /\ last_source' = "File"
                /\ vingen4_entries'.some
                /\ ~file_error'.some]_vars
    /\ [][LoadEvent /\ ~LoadedGood
             => /\ last_source' = last_source
                /\ entries' = entries /\ vin_error' = vin_error
                /\ vingen4_entries' = None
                /\ file_error' = IF files'[event'.path].exists
                                 THEN NoVinData ELSE FileNotFound(event'.path)]_vars
    /\ [][last_source' = "File" /\ last_source # "File"
             => LoadEvent /\ LoadedGood]_vars
    /\ [][event'.kind = "Decode"
             => /\ last_source' = "Vin"
                /\ vingen4_entries' = vingen4_entries
                /\ file_error' = file_error]_vars

\* C20 witness: a Load of a file with no VIN data has failed after a Decode:
\* the message is set and vingen4_entries is empty, while the source is still
\* Vin and the decoded fields are still there
C20_Witness ==
    /\ event.kind = "Load"
    /\ files[event.path] = FileOf(NoDataFile)
    /\ file_error = NoVinData
    /\ vingen4_entries = None
    /\ last_source = "Vin"
    /\ entries.some


\* C21: the application never holds a result and an error of the same
\* pipeline: vingen4_entries and file_error are never both set, entries and
\* vin_error are never both set; after a Decode event, and as long as the
\* source is Vin, exactly one of entries and vin_error is set.
C21_ResultOrError ==
    /\ ~(vingen4_entries.some /\ file_error.some)
    /\ ~(entries.some /\ vin_error.some)
    /\ event.kind = "Decode" \/ last_source = "Vin"
          => entries.some # vin_error.some

\* C21 witness: Decode has refused a code after a load had failed: both
\* pipelines hold their error and no result
C21_Witness ==
    /\ event.kind = "Decode"
    /\ Len(Normalise(event.text)) # TotalWidth
    /\ vin_error.some /\ ~entries.some
    /\ file_error.some /\ ~vingen4_entries.some
    /\ last_source = "Vin"

====
